---------------------------- MODULE Spec2Model ----------------------------
(***************************************************************************)
(* Model of the Workspace Directory Provider (package provider) of         *)
(* kazuph/mcp-slack: the lazily booted clients, the user and conversation  *)
(* caches with their inverse indices, the disk snapshots and the paginated *)
(* conversation fetch.                                                     *)
(*                                                                         *)
(* A Go string is a sequence of tokens (each token an indivisible piece of *)
(* text), so that concatenation, normalisation and comparison are the      *)
(* operations of the code and the empty string is << >>.                   *)
(***************************************************************************)
EXTENDS Integers, Sequences, FiniteSets, TLC

(***************************************************************************)
(* Bounds of the model.                                                    *)
(***************************************************************************)
MaxCalls == 2        \* operations started in one behaviour
MaxUsers == 2        \* users in one response of the user list
MaxPageLen == 1      \* conversations in one page
MaxPages == 2        \* pages of one enumeration

Threads == {"T1", "T2"}

Nil == "nil"

(***************************************************************************)
(* Strings and maps.                                                       *)
(***************************************************************************)
EmptyMap == << >>

Put(m, k, v) == [x \in (DOMAIN m) \cup {k} |-> IF x = k THEN v ELSE m[x]]

Has(m, k) == k \in DOMAIN m

Range(s) == {s[i] : i \in 1..Len(s)}

Invisible == {"U+200B", "U+200C", "U+200D", "U+FEFF", "CTRL"}

\* strings.Map dropping the invisible runes
normalizeString(s) == SelectSeq(s, LAMBDA r : r \notin Invisible)

RECURSIVE Join(_, _)
Join(ss, sep) ==
  IF Len(ss) = 0 THEN << >>
  ELSE IF Len(ss) = 1 THEN ss[1]
  ELSE ss[1] \o sep \o Join(Tail(ss), sep)

AllChanTypes == <<"mpim", "im", "public_channel", "private_channel">>

(***************************************************************************)
(* The Name/Purpose Deriver.                                               *)
(***************************************************************************)
\* Mutant of FirstKnownMember: the first listed member is taken, known or not.
FirstKnownMember_FirstListed(members, usersMap) ==
  IF Len(members) = 0 THEN << >> ELSE members[1]

\* for _, memberID := range members { if _, ok := usersMap[memberID]; ok {
\* userID = memberID; break } }
RECURSIVE FirstKnownMember(_, _)
FirstKnownMember(members, usersMap) ==
  IF Len(members) = 0 THEN << >>
  ELSE IF Has(usersMap, members[1]) THEN members[1]
  ELSE FirstKnownMember(Tail(members), usersMap)

\* Mutant of MemberNames: the members are written as their IDs.
MemberNames_RawIDs(members, usersMap) == members

\* userNames: the real name of a member that usersMap has, else its ID
MemberNames(members, usersMap) ==
  [i \in 1..Len(members) |->
     IF Has(usersMap, members[i]) THEN usersMap[members[i]].RealName
     ELSE members[i]]

\* Mutant of mapChannel: a direct message keeps the member count supplied.
mapChannel_CountKept(id, name, nameNormalized, topic, purpose, user, members, numMembers, isIM, isMpIM, isPrivate, usersMap) ==
  LET userID == IF isIM
                THEN IF user = << >> /\ Len(members) > 0
                     THEN FirstKnownMember(members, usersMap)
                     ELSE user
                ELSE << >>
      mpim == ~isIM /\ isMpIM /\ Len(members) > 0
      channelName ==
        IF isIM
        THEN IF Has(usersMap, userID) THEN <<"@">> \o usersMap[userID].Name
             ELSE IF userID # << >> THEN <<"@">> \o userID
             ELSE <<"@">>
        ELSE IF isMpIM
        THEN IF mpim THEN <<"@">> \o nameNormalized ELSE name
        ELSE <<"#">> \o nameNormalized
      finalPurpose ==
        IF isIM
        THEN IF Has(usersMap, userID)
             THEN <<"DM with ">> \o usersMap[userID].RealName
             ELSE IF userID # << >> THEN <<"DM with ">> \o userID
             ELSE <<"DM with ">>
        ELSE IF mpim
        THEN <<"Group DM with ">> \o Join(MemberNames(members, usersMap), <<", ">>)
        ELSE purpose
      finalTopic == IF isIM \/ mpim THEN << >> ELSE topic
      finalMemberCount ==
        IF mpim THEN Len(members) ELSE numMembers
  IN [ID |-> id, Name |-> channelName, Topic |-> finalTopic,
      Purpose |-> finalPurpose, MemberCount |-> finalMemberCount,
      IsMpIM |-> isMpIM, IsIM |-> isIM, IsPrivate |-> isPrivate,
      User |-> userID, Members |-> members]

\* Mutant of mapChannel: a group direct message is derived from its member
\* list also when the list is empty.
mapChannel_EmptyGroupMapped(id, name, nameNormalized, topic, purpose, user, members, numMembers, isIM, isMpIM, isPrivate, usersMap) ==
  LET userID == IF isIM
                THEN IF user = << >> /\ Len(members) > 0
                     THEN FirstKnownMember(members, usersMap)
                     ELSE user
                ELSE << >>
      mpim == ~isIM /\ isMpIM
      channelName ==
        IF isIM
        THEN IF Has(usersMap, userID) THEN <<"@">> \o usersMap[userID].Name
             ELSE IF userID # << >> THEN <<"@">> \o userID
             ELSE <<"@">>
        ELSE IF isMpIM
        THEN IF mpim THEN <<"@">> \o nameNormalized ELSE name
        ELSE <<"#">> \o nameNormalized
      finalPurpose ==
        IF isIM
        THEN IF Has(usersMap, userID)
             THEN <<"DM with ">> \o usersMap[userID].RealName
             ELSE IF userID # << >> THEN <<"DM with ">> \o userID
             ELSE <<"DM with ">>
        ELSE IF mpim
        THEN <<"Group DM with ">> \o Join(MemberNames(members, usersMap), <<", ">>)
        ELSE purpose
      finalTopic == IF isIM \/ mpim THEN << >> ELSE topic
      finalMemberCount ==
        IF isIM THEN 2 ELSE IF mpim THEN Len(members) ELSE numMembers
  IN [ID |-> id, Name |-> channelName, Topic |-> finalTopic,
      Purpose |-> finalPurpose, MemberCount |-> finalMemberCount,
      IsMpIM |-> isMpIM, IsIM |-> isIM, IsPrivate |-> isPrivate,
      User |-> userID, Members |-> members]

\* Mutant of mapChannel: the topic is cleared for every conversation.
mapChannel_TopicCleared(id, name, nameNormalized, topic, purpose, user, members, numMembers, isIM, isMpIM, isPrivate, usersMap) ==
  LET userID == IF isIM
                THEN IF user = << >> /\ Len(members) > 0
                     THEN FirstKnownMember(members, usersMap)
                     ELSE user
                ELSE << >>
      mpim == ~isIM /\ isMpIM /\ Len(members) > 0
      channelName ==
        IF isIM
        THEN IF Has(usersMap, userID) THEN <<"@">> \o usersMap[userID].Name
             ELSE IF userID # << >> THEN <<"@">> \o userID
             ELSE <<"@">>
        ELSE IF isMpIM
        THEN IF mpim THEN <<"@">> \o nameNormalized ELSE name
        ELSE <<"#">> \o nameNormalized
      finalPurpose ==
        IF isIM
        THEN IF Has(usersMap, userID)
             THEN <<"DM with ">> \o usersMap[userID].RealName
             ELSE IF userID # << >> THEN <<"DM with ">> \o userID
             ELSE <<"DM with ">>
        ELSE IF mpim
        THEN <<"Group DM with ">> \o Join(MemberNames(members, usersMap), <<", ">>)
        ELSE purpose
      finalTopic == << >>
      finalMemberCount ==
        IF isIM THEN 2 ELSE IF mpim THEN Len(members) ELSE numMembers
  IN [ID |-> id, Name |-> channelName, Topic |-> finalTopic,
      Purpose |-> finalPurpose, MemberCount |-> finalMemberCount,
      IsMpIM |-> isMpIM, IsIM |-> isIM, IsPrivate |-> isPrivate,
      User |-> userID, Members |-> members]

mapChannel(id, name, nameNormalized, topic, purpose, user, members, numMembers, isIM, isMpIM, isPrivate, usersMap) ==
  LET userID == IF isIM
                THEN IF user = << >> /\ Len(members) > 0
                     THEN FirstKnownMember(members, usersMap)
                     ELSE user
                ELSE << >>
      mpim == ~isIM /\ isMpIM /\ Len(members) > 0
      channelName ==
        IF isIM
        THEN IF Has(usersMap, userID) THEN <<"@">> \o usersMap[userID].Name
             ELSE IF userID # << >> THEN <<"@">> \o userID
             ELSE <<"@">>
        ELSE IF isMpIM
        THEN IF mpim THEN <<"@">> \o nameNormalized ELSE name
        ELSE <<"#">> \o nameNormalized
      finalPurpose ==
        IF isIM
        THEN IF Has(usersMap, userID)
             THEN <<"DM with ">> \o usersMap[userID].RealName
             ELSE IF userID # << >> THEN <<"DM with ">> \o userID
             ELSE <<"DM with ">>
        ELSE IF mpim
        THEN <<"Group DM with ">> \o Join(MemberNames(members, usersMap), <<", ">>)
        ELSE purpose
      finalTopic == IF isIM \/ mpim THEN << >> ELSE topic
      finalMemberCount ==
        IF isIM THEN 2 ELSE IF mpim THEN Len(members) ELSE numMembers
  IN [ID |-> id, Name |-> channelName, Topic |-> finalTopic,
      Purpose |-> finalPurpose, MemberCount |-> finalMemberCount,
      IsMpIM |-> isMpIM, IsIM |-> isIM, IsPrivate |-> isPrivate,
      User |-> userID, Members |-> members]


(***************************************************************************)
(* What the remote workspace can answer.                                   *)
(***************************************************************************)
U1 == <<"U1">>
U2 == <<"U2">>

\* slack.User records (Profile.DisplayName and Profile.Email flattened)
RemoteUsers ==
  { [ID |-> U1, Name |-> <<"alice">>, DisplayName |-> <<"Al">>,
     RealName |-> << >>, Email |-> <<"a@x">>],
    [ID |-> U1, Name |-> <<"alicia">>, DisplayName |-> << >>,
     RealName |-> <<"Alice A">>, Email |-> << >>],
    [ID |-> U2, Name |-> <<"bob">>, DisplayName |-> <<"Al", "U+200B">>,
     RealName |-> << >>, Email |-> << >>] }

SeqsUpTo(S, n) == UNION {[1..k -> S] : k \in 0..n}

\* a response of the user list names a user ID once
UserLists ==
  {us \in SeqsUpTo(RemoteUsers, MaxUsers) :
     \A i, j \in DOMAIN us : i # j => us[i].ID # us[j].ID}

\* slack.Channel records as listed by the remote
RawChannel(id, name, topic, purpose, user, members, n, im, mpim, priv, arch) ==
  [ID |-> id, Name |-> name, NameNormalized |-> name, Topic |-> topic,
   Purpose |-> purpose, User |-> user, Members |-> members, NumMembers |-> n,
   IsIM |-> im, IsMpIM |-> mpim, IsPrivate |-> priv, IsArchived |-> arch]

RemoteChannels ==
  { RawChannel(<<"D1">>, << >>, << >>, << >>, U1, << >>, 0,
               TRUE, FALSE, TRUE, FALSE),
    RawChannel(<<"D2">>, << >>, << >>, << >>, << >>, <<U2>>, 0,
               TRUE, FALSE, TRUE, FALSE),
    RawChannel(<<"C1">>, <<"general">>, <<"news">>, <<"talk">>, << >>, << >>, 3,
               FALSE, FALSE, FALSE, FALSE),
    RawChannel(<<"C2">>, <<"old">>, << >>, << >>, << >>, << >>, 1,
               FALSE, FALSE, TRUE, TRUE),
    RawChannel(<<"G1">>, <<"mpdm-a--b">>, <<"chat">>, <<"plans">>, << >>,
               <<U1, U2>>, 0, FALSE, TRUE, TRUE, FALSE) }

\* the type under which the remote files a conversation
ConvType(c) ==
  IF c.IsIM THEN "im"
  ELSE IF c.IsMpIM THEN "mpim"
  ELSE IF c.IsPrivate THEN "private_channel"
  ELSE "public_channel"

\* the standard protocol answers the request p with conversations of the
\* types it names, the archived ones left out when it says so
StandardPages(p) ==
  SeqsUpTo({c \in RemoteChannels :
              /\ ConvType(c) \in Range(p.Types)
              /\ (p.ExcludeArchived => ~c.IsArchived)}, MaxPageLen)

\* the enterprise protocol lists archived conversations too
EnterprisePages == SeqsUpTo(RemoteChannels, MaxPageLen)

EnterpriseIDs == {<< >>, <<"E1">>}

(***************************************************************************)
(* State.                                                                  *)
(***************************************************************************)
VARIABLES
  users, usersInv, usersDisplayNameInv, usersRealNameInv, usersEmailInv,
  channels, channelsInv,          \* the cache maps of the ApiProvider
  clientGeneric, clientEnterprise,\* Nil or the handle of the client
  authProvider, authResponse,     \* Nil or the recorded identity
  usersFile, channelsFile,        \* the snapshot files
  grid,                           \* the enterprise-grid ID of the workspace
  everMerged,                     \* history: the records stored so far
  pc, loc,                        \* per thread: position and locals
  authTests,                      \* identity round trips performed so far
  identitySets,                   \* times the identity was recorded
  clientsMade,                    \* slack.New calls so far (next handle)
  edgeClientsMade,                \* edge.NewWithInfo calls so far
  calls,                          \* operations started so far
  halted,                         \* the process ended by a panic or a fatal error
  env,                            \* the credential slots of the environment
  provider                        \* what New has returned, once called

cacheVars == <<users, usersInv, usersDisplayNameInv, usersRealNameInv,
               usersEmailInv, channels, channelsInv>>
clientVars == <<clientGeneric, clientEnterprise, authProvider, authResponse,
                authTests, identitySets, clientsMade, edgeClientsMade>>
diskVars == <<usersFile, channelsFile>>
setupVars == <<grid, env, provider>>
vars == <<cacheVars, clientVars, diskVars, setupVars, everMerged, pc, loc,
          calls, halted>>

\* A snapshot file: absent (ReadFile fails), garbage (ReadFile succeeds and
\* Unmarshal fails) or the list of records it holds.
Absent == [kind |-> "absent", data |-> << >>]
Garbage == [kind |-> "garbage", data |-> << >>]
Snapshot(records) == [kind |-> "json", data |-> records]

Parses(file) == file.kind = "json"

\* encoding/json on a string: a control character is written as an escape,
\* every other rune (the zero-width ones included) as itself
JSONString(s) == [i \in DOMAIN s |-> IF s[i] = "CTRL" THEN "\\u0007" ELSE s[i]]
ParseJSONString(j) == [i \in DOMAIN j |-> IF j[i] = "\\u0007" THEN "CTRL" ELSE j[i]]

\* json.MarshalIndent on a slack.User: the object with the keys of the tags
MarshalUser(u) ==
  [id |-> JSONString(u.ID), name |-> JSONString(u.Name),
   real_name |-> JSONString(u.RealName),
   profile |-> [display_name |-> JSONString(u.DisplayName),
                email |-> JSONString(u.Email)]]

\* Mutant of UnmarshalUser: the profile object is not read back.
UnmarshalUser_ProfileLost(j) ==
  [ID |-> ParseJSONString(j.id), Name |-> ParseJSONString(j.name),
   DisplayName |-> << >>, RealName |-> ParseJSONString(j.real_name),
   Email |-> << >>]

\* json.Unmarshal into a slack.User
UnmarshalUser(j) ==
  [ID |-> ParseJSONString(j.id), Name |-> ParseJSONString(j.name),
   DisplayName |-> ParseJSONString(j.profile.display_name),
   RealName |-> ParseJSONString(j.real_name),
   Email |-> ParseJSONString(j.profile.email)]

MarshalUsers(us) == [i \in DOMAIN us |-> MarshalUser(us[i])]
UnmarshalUsers(js) == [i \in DOMAIN js |-> UnmarshalUser(js[i])]

NoClient == 0          \* the nil client pointer
NoIdentity == [set |-> FALSE, EnterpriseID |-> << >>]
Identity(e) == [set |-> TRUE, EnterpriseID |-> e]

\* What ProvideUsersMap hands out: the UsersCache struct, whose fields are the
\* map values of the provider itself. A Go map value is a reference to the map
\* object, named here by the provider field that holds it.
NoView == [Users |-> Nil, UsersInv |-> Nil, UsersDisplayNameInv |-> Nil,
           UsersRealNameInv |-> Nil, UsersEmailInv |-> Nil]

\* no ChannelsCache handed out
NoChannelsView == [Channels |-> Nil, ChannelsInv |-> Nil]

\* no page request issued yet
NoRequest == [proto |-> "none", Types |-> << >>, ExcludeArchived |-> FALSE]

\* the locals of an operation that is not running
LocInit ==
  [op |-> Nil, ret |-> Nil, list |-> << >>, i |-> 1, stmt |-> 1,
   err |-> Nil, client |-> NoClient, resp |-> NoIdentity,
   gret |-> Nil, types |-> << >>, chans |-> << >>, nextcur |-> << >>,
   res |-> << >>,
   reqs |-> 0, permits |-> 0, merged |-> 0, pageErr |-> FALSE,
   cancelled |-> FALSE,
   snap |-> Nil, auth0 |-> 0, wrote |-> "no",
   sent |-> NoRequest, archived |-> {},
   cview |-> NoChannelsView,
   view |-> NoView, viewAt |-> EmptyMap, visited |-> {}]

(***************************************************************************)
(* New: the choice of the credential mode.  A slot is an environment       *)
(* variable; its value is a string whose first piece is the shape prefix.  *)
(***************************************************************************)
HasPrefix(s, prefix) == Len(s) >= 1 /\ s[1] = prefix

\* values of SLACK_MCP_XOXC_TOKEN, _XOXD_TOKEN, _XOXP_TOKEN, _XOXB_TOKEN
TokenValues ==
  {<< >>, <<"xoxc-", "s">>, <<"xoxp-", "u">>, <<"xoxb-", "b">>, <<"plain">>}
CookieValues == {<< >>, <<"xoxd-", "c">>}
Envs ==
  [xoxc : {<< >>, <<"xoxc-", "s">>, <<"xoxp-", "u">>}, xoxd : CookieValues,
   xoxp : TokenValues, xoxb : TokenValues]

\* the credential held by an auth.ValueAuth
NoAuth == [token |-> << >>, cookie |-> << >>]
ValueAuth(token, cookie) == [token |-> token, cookie |-> cookie]

\* New has not been called
NotBuilt ==
  [state |-> "none", mode |-> Nil, isBotToken |-> FALSE, auth |-> NoAuth,
   panic |-> Nil]
\* panic(...): New returns nothing and the process ends
Panicked(why) ==
  [state |-> "panicked", mode |-> Nil, isBotToken |-> FALSE, auth |-> NoAuth,
   panic |-> why]

\* the ApiProvider literals of the three constructors: the boot closure keeps
\* the credential, and isBotToken is set by newWithXOXB alone
newWithXOXC(valueAuth) ==
  [state |-> "built", mode |-> "xoxc", isBotToken |-> FALSE,
   auth |-> valueAuth, panic |-> Nil]
newWithXOXP(valueAuth) ==
  [state |-> "built", mode |-> "xoxp", isBotToken |-> FALSE,
   auth |-> valueAuth, panic |-> Nil]
newWithXOXB(valueAuth) ==
  [state |-> "built", mode |-> "xoxb", isBotToken |-> TRUE,
   auth |-> valueAuth, panic |-> Nil]

\* authProvider, err = auth.NewValueAuth(...); if err != nil { panic(err) }
\* NewValueAuth belongs to a library: whether it returns an error (authErr) is
\* an input.
ValueAuthThen(authErr, built) == IF authErr THEN Panicked("auth") ELSE built

\* Mutant of New: the bot-token slot is looked at before the user-token slot.
New_BotFirst(e, authErr) ==
  IF e.xoxc # << >> /\ e.xoxd # << >>
  THEN ValueAuthThen(authErr, newWithXOXC(ValueAuth(e.xoxc, e.xoxd)))
  ELSE IF e.xoxb # << >>
  THEN ValueAuthThen(authErr, newWithXOXB(ValueAuth(e.xoxb, << >>)))
  ELSE IF e.xoxp # << >>
  THEN IF HasPrefix(e.xoxp, "xoxb-")
       THEN ValueAuthThen(authErr, newWithXOXB(ValueAuth(e.xoxp, << >>)))
       ELSE IF HasPrefix(e.xoxp, "xoxc-")
       THEN Panicked("session token in SLACK_MCP_XOXP_TOKEN")
       ELSE ValueAuthThen(authErr, newWithXOXP(ValueAuth(e.xoxp, << >>)))
  ELSE Panicked("Authentication required")

\* Mutant of New: a session token in the user-token slot is passed over and
\* the bot-token slot is tried.
New_SessionTokenSkipped(e, authErr) ==
  IF e.xoxc # << >> /\ e.xoxd # << >>
  THEN ValueAuthThen(authErr, newWithXOXC(ValueAuth(e.xoxc, e.xoxd)))
  ELSE IF e.xoxp # << >> /\ ~HasPrefix(e.xoxp, "xoxc-")
  THEN IF HasPrefix(e.xoxp, "xoxb-")
       THEN ValueAuthThen(authErr, newWithXOXB(ValueAuth(e.xoxp, << >>)))
       ELSE ValueAuthThen(authErr, newWithXOXP(ValueAuth(e.xoxp, << >>)))
  ELSE IF e.xoxb # << >>
  THEN ValueAuthThen(authErr, newWithXOXB(ValueAuth(e.xoxb, << >>)))
  ELSE Panicked("Authentication required")

\* Mutant of New: a bot token in the user-token slot is used as a user token.
New_NoDowngrade(e, authErr) ==
  IF e.xoxc # << >> /\ e.xoxd # << >>
  THEN ValueAuthThen(authErr, newWithXOXC(ValueAuth(e.xoxc, e.xoxd)))
  ELSE IF e.xoxp # << >>
  THEN IF HasPrefix(e.xoxp, "xoxc-")
       THEN Panicked("session token in SLACK_MCP_XOXP_TOKEN")
       ELSE ValueAuthThen(authErr, newWithXOXP(ValueAuth(e.xoxp, << >>)))
  ELSE IF e.xoxb # << >>
  THEN ValueAuthThen(authErr, newWithXOXB(ValueAuth(e.xoxb, << >>)))
  ELSE Panicked("Authentication required")

\* New, for the slots e
New(e, authErr) ==
  IF e.xoxc # << >> /\ e.xoxd # << >>
  THEN ValueAuthThen(authErr, newWithXOXC(ValueAuth(e.xoxc, e.xoxd)))
  ELSE IF e.xoxp # << >>
  THEN IF HasPrefix(e.xoxp, "xoxb-")
       THEN ValueAuthThen(authErr, newWithXOXB(ValueAuth(e.xoxp, << >>)))
       ELSE IF HasPrefix(e.xoxp, "xoxc-")
       THEN Panicked("session token in SLACK_MCP_XOXP_TOKEN")
       ELSE ValueAuthThen(authErr, newWithXOXP(ValueAuth(e.xoxp, << >>)))
  ELSE IF e.xoxb # << >>
  THEN ValueAuthThen(authErr, newWithXOXB(ValueAuth(e.xoxb, << >>)))
  ELSE Panicked("Authentication required")

IsBotToken == provider.isBotToken

\* the slots of the runs that start from a constructed provider
UserTokenEnv ==
  [xoxc |-> << >>, xoxd |-> << >>, xoxp |-> <<"xoxp-", "u">>, xoxb |-> << >>]

\* the fields of a provider that has done nothing yet, and its surroundings
Fresh ==
  /\ users = EmptyMap /\ usersInv = EmptyMap
  /\ usersDisplayNameInv = EmptyMap /\ usersRealNameInv = EmptyMap
  /\ usersEmailInv = EmptyMap
  /\ channels = EmptyMap /\ channelsInv = EmptyMap
  /\ clientGeneric = NoClient /\ clientEnterprise = NoClient
  /\ authProvider = Nil /\ authResponse = NoIdentity
  /\ everMerged = [users |-> {}, channels |-> {}]
  /\ pc = [t \in Threads |-> "idle"]
  /\ loc = [t \in Threads |-> LocInit]
  /\ authTests = 0 /\ identitySets = 0 /\ clientsMade = 0
  /\ edgeClientsMade = 0
  /\ calls = 0
  /\ halted = FALSE

Goto(t, label) == pc' = [pc EXCEPT ![t] = label]

\* the operation of thread t returns to its caller with error e
Finish(t, e) ==
  /\ Goto(t, "returned")
  /\ loc' = [loc EXCEPT ![t].err = e]

(***************************************************************************)
(* ProvideGeneric and the boot closure.                                    *)
(***************************************************************************)
CallProvideGeneric(t) ==
  /\ pc[t] = "idle" /\ ~halted /\ calls < MaxCalls
  /\ calls' = calls + 1
  /\ Goto(t, "pg_check")
  /\ loc' = [loc EXCEPT ![t].op = "ProvideGeneric", ![t].ret = "returned"]
  /\ UNCHANGED <<cacheVars, clientVars, diskVars, setupVars, everMerged, halted>>

\* Mutant of ProvideGeneric_Check: the nil test is dropped, every call boots.
ProvideGeneric_Check_AlwaysBoots(t) ==
  /\ pc[t] = "pg_check" /\ ~halted
  /\ Goto(t, "boot_auth")
  /\ UNCHANGED <<cacheVars, clientVars, diskVars, setupVars, everMerged, loc,
                 calls, halted>>

\* if ap.clientGeneric == nil { ... } return ap.clientGeneric, nil
ProvideGeneric_Check(t) ==
  /\ pc[t] = "pg_check" /\ ~halted
  /\ IF clientGeneric = NoClient
     THEN Goto(t, "boot_auth") /\ UNCHANGED loc
     ELSE /\ Goto(t, loc[t].ret)
          /\ loc' = [loc EXCEPT ![t].client = clientGeneric]
  /\ UNCHANGED <<cacheVars, clientVars, diskVars, setupVars, everMerged, calls, halted>>

\* api := slack.New(...); res, err := api.AuthTest(); if err != nil { panic(err) }
Boot_AuthTest(t) ==
  /\ pc[t] = "boot_auth" /\ ~halted
  /\ clientsMade' = clientsMade + 1
  /\ authTests' = authTests + 1
  /\ \/ /\ loc' = [loc EXCEPT ![t].client = clientsMade + 1,
                                ![t].resp = Identity(grid)]
        /\ Goto(t, "boot_ident")
        /\ UNCHANGED halted
     \/ /\ halted' = TRUE
        /\ UNCHANGED <<pc, loc>>
  /\ UNCHANGED <<cacheVars, clientGeneric, clientEnterprise, authProvider,
                 authResponse, identitySets, edgeClientsMade, diskVars, setupVars, everMerged, calls>>

\* ap.authProvider = &authProvider; ap.authResponse = &slack2.AuthTestResponse{...}
Boot_SetIdentity(t) ==
  /\ pc[t] = "boot_ident" /\ ~halted
  /\ authProvider' = "auth"
  /\ authResponse' = loc[t].resp
  /\ identitySets' = identitySets + 1
  /\ Goto(t, "pg_assign")
  /\ UNCHANGED loc
  /\ UNCHANGED <<cacheVars, clientGeneric, clientEnterprise, authTests,
                 clientsMade, edgeClientsMade, diskVars, setupVars, everMerged, calls, halted>>

\* ap.clientGeneric = ap.boot(ap); return ap.clientGeneric, nil
ProvideGeneric_Assign(t) ==
  /\ pc[t] = "pg_assign" /\ ~halted
  /\ clientGeneric' = loc[t].client
  /\ Goto(t, loc[t].ret)
  /\ UNCHANGED <<cacheVars, clientEnterprise, authProvider, authResponse,
                 authTests, identitySets, clientsMade, edgeClientsMade,
                 diskVars, setupVars, everMerged, loc, calls, halted>>


(***************************************************************************)
(* RefreshUsers.                                                           *)
(***************************************************************************)
CallRefreshUsers(t) ==
  /\ pc[t] = "idle" /\ ~halted /\ calls < MaxCalls
  /\ calls' = calls + 1
  /\ Goto(t, "ru_read")
  /\ loc' = [loc EXCEPT ![t].op = "RefreshUsers", ![t].auth0 = authTests]
  /\ UNCHANGED <<cacheVars, clientVars, diskVars, setupVars, everMerged, halted>>

\* Mutant of RefreshUsers_ReadCache: the client is booted before the
\* snapshot is loaded.
RefreshUsers_ReadCache_BootFirst(t) ==
  /\ pc[t] = "ru_read" /\ ~halted
  /\ IF Parses(usersFile)
     THEN /\ Goto(t, "pg_check")
          /\ loc' = [loc EXCEPT ![t].list = UnmarshalUsers(usersFile.data), ![t].i = 1,
                                ![t].stmt = 1, ![t].snap = usersFile.kind,
                                ![t].ret = "ru_load"]
     ELSE /\ Goto(t, "pg_check")
          /\ loc' = [loc EXCEPT ![t].ret = "ru_fetch",
                                ![t].snap = usersFile.kind]
  /\ UNCHANGED <<cacheVars, clientVars, diskVars, setupVars, everMerged, calls, halted>>

\* Mutant of RefreshUsers_ReadCache: a snapshot that does not parse is an
\* error of the refresh.
RefreshUsers_ReadCache_ParseFatal(t) ==
  /\ pc[t] = "ru_read" /\ ~halted
  /\ IF Parses(usersFile)
     THEN /\ Goto(t, "ru_load")
          /\ loc' = [loc EXCEPT ![t].list = UnmarshalUsers(usersFile.data), ![t].i = 1,
                                ![t].stmt = 1, ![t].snap = usersFile.kind]
     ELSE IF usersFile.kind = "garbage"
     THEN /\ Goto(t, "returned")
          /\ loc' = [loc EXCEPT ![t].err = "bad snapshot",
                                ![t].snap = usersFile.kind]
     ELSE /\ Goto(t, "pg_check")
          /\ loc' = [loc EXCEPT ![t].ret = "ru_fetch",
                                ![t].snap = usersFile.kind]
  /\ UNCHANGED <<cacheVars, clientVars, diskVars, setupVars, everMerged, calls, halted>>

\* ioutil.ReadFile(ap.usersCache) and json.Unmarshal(data, &cachedUsers)
RefreshUsers_ReadCache(t) ==
  /\ pc[t] = "ru_read" /\ ~halted
  /\ IF Parses(usersFile)
     THEN /\ Goto(t, "ru_load")
          /\ loc' = [loc EXCEPT ![t].list = UnmarshalUsers(usersFile.data), ![t].i = 1,
                                ![t].stmt = 1, ![t].snap = usersFile.kind]
     ELSE /\ Goto(t, "pg_check")
          /\ loc' = [loc EXCEPT ![t].ret = "ru_fetch",
                                ![t].snap = usersFile.kind]
  /\ UNCHANGED <<cacheVars, clientVars, diskVars, setupVars, everMerged, calls, halted>>

\* users, err := client.GetUsersContext(ctx, optionLimit)
RefreshUsers_Fetch(t) ==
  /\ pc[t] = "ru_fetch" /\ ~halted
  /\ \/ \E us \in UserLists :
          /\ Goto(t, "ru_merge")
          /\ loc' = [loc EXCEPT ![t].list = us, ![t].i = 1, ![t].stmt = 1,
                                ![t].reqs = @ + 1]
     \/ /\ Goto(t, "returned")
        /\ loc' = [loc EXCEPT ![t].err = "fetch failed", ![t].reqs = @ + 1]
  /\ UNCHANGED <<cacheVars, clientVars, diskVars, setupVars, everMerged, calls, halted>>

\* Mutant of MergeUserStatement: the email index is never written.
MergeUserStatement_NoEmailIndex(u, stmt, applied) ==
  /\ users' = IF stmt = 1 /\ applied THEN Put(users, u.ID, u) ELSE users
  /\ usersInv' = IF stmt = 2 /\ applied
                 THEN Put(usersInv, u.Name, u.ID) ELSE usersInv
  /\ usersDisplayNameInv' =
       IF stmt = 3 /\ applied /\ u.DisplayName # << >>
       THEN Put(usersDisplayNameInv, normalizeString(u.DisplayName), u.ID)
       ELSE usersDisplayNameInv
  /\ usersRealNameInv' =
       IF stmt = 4 /\ applied /\ u.RealName # << >>
       THEN Put(usersRealNameInv, normalizeString(u.RealName), u.ID)
       ELSE usersRealNameInv
  /\ usersEmailInv' = usersEmailInv

\* The body of the merge loop, one statement at a time, for the user u:
\*   1  ap.users[u.ID] = u
\*   2  ap.usersInv[u.Name] = u.ID
\*   3  if u.Profile.DisplayName != "" { ap.usersDisplayNameInv[normalized] = u.ID }
\*   4  if u.RealName != "" { ap.usersRealNameInv[normalized] = u.ID }
\*   5  if u.Profile.Email != "" { ap.usersEmailInv[u.Profile.Email] = u.ID }
\* applied = FALSE is a write that did not take effect.
MergeUserStatement(u, stmt, applied) ==
  /\ users' = IF stmt = 1 /\ applied THEN Put(users, u.ID, u) ELSE users
  /\ usersInv' = IF stmt = 2 /\ applied
                 THEN Put(usersInv, u.Name, u.ID) ELSE usersInv
  /\ usersDisplayNameInv' =
       IF stmt = 3 /\ applied /\ u.DisplayName # << >>
       THEN Put(usersDisplayNameInv, normalizeString(u.DisplayName), u.ID)
       ELSE usersDisplayNameInv
  /\ usersRealNameInv' =
       IF stmt = 4 /\ applied /\ u.RealName # << >>
       THEN Put(usersRealNameInv, normalizeString(u.RealName), u.ID)
       ELSE usersRealNameInv
  /\ usersEmailInv' =
       IF stmt = 5 /\ applied /\ u.Email # << >>
       THEN Put(usersEmailInv, u.Email, u.ID)
       ELSE usersEmailInv

\* statement stmt of the loop body writes a map for the user u
WritesMap(u, stmt) ==
  \/ stmt \in {1, 2}
  \/ stmt = 3 /\ u.DisplayName # << >>
  \/ stmt = 4 /\ u.RealName # << >>
  \/ stmt = 5 /\ u.Email # << >>

\* the next statement after stmt that writes a map for u; 6 when the body
\* is done (an if whose test fails touches no map and is passed over)
NextWrite(u, stmt) ==
  IF \E n \in (stmt + 1)..5 : WritesMap(u, n)
  THEN CHOOSE n \in (stmt + 1)..5 :
         WritesMap(u, n) /\ \A m \in (stmt + 1)..(n - 1) : ~WritesMap(u, m)
  ELSE 6

\* one map write of a merge loop over loc[t].list, then on to the next write,
\* the next user or, the list exhausted, to label after
MergeUsersStep(t, label, after, applied) ==
  /\ pc[t] = label /\ ~halted
  /\ IF loc[t].i > Len(loc[t].list)
     THEN /\ Goto(t, after)
          /\ loc' = [loc EXCEPT ![t].err = Nil]
          /\ UNCHANGED <<users, usersInv, usersDisplayNameInv,
                         usersRealNameInv, usersEmailInv, everMerged>>
     ELSE LET u == loc[t].list[loc[t].i]
              n == NextWrite(u, loc[t].stmt)
              last == n = 6 /\ loc[t].i = Len(loc[t].list)
          IN /\ MergeUserStatement(u, loc[t].stmt, applied)
             /\ everMerged' =
                  IF loc[t].stmt = 1 /\ applied
                  THEN [everMerged EXCEPT !.users = @ \cup {u}]
                  ELSE everMerged
             /\ loc' = [loc EXCEPT
                          ![t].stmt = IF n = 6 THEN 1 ELSE n,
                          ![t].i = IF n = 6 THEN @ + 1 ELSE @,
                          ![t].err = IF last THEN Nil ELSE @]
             /\ IF last THEN Goto(t, after) ELSE UNCHANGED pc
  /\ UNCHANGED <<channels, channelsInv, clientVars, diskVars, setupVars, calls, halted>>

\* for _, u := range cachedUsers { ... }; return nil
RefreshUsers_LoadCached(t) == MergeUsersStep(t, "ru_load", "returned", TRUE)

\* for _, user := range users { ... }
RefreshUsers_Merge(t) == MergeUsersStep(t, "ru_merge", "ru_write", TRUE)

\* Mutant of RefreshUsers_WriteCache: a failed write is returned as an error.
RefreshUsers_WriteCache_FailureReturned(t) ==
  /\ pc[t] = "ru_write" /\ ~halted
  /\ \/ /\ usersFile' = Snapshot(MarshalUsers(loc[t].list))
        /\ loc' = [loc EXCEPT ![t].err = Nil, ![t].wrote = "written"]
     \/ /\ usersFile' \in {usersFile, Garbage}
        /\ loc' = [loc EXCEPT ![t].err = "write failed", ![t].wrote = "failed"]
  /\ Goto(t, "returned")
  /\ UNCHANGED <<cacheVars, clientVars, channelsFile, setupVars, everMerged, calls, halted>>

\* json.MarshalIndent(users, ...) and ioutil.WriteFile(ap.usersCache, ...): the
\* list that was fetched is written; a failed write leaves the file as it was
\* or cut short
RefreshUsers_WriteCache(t) ==
  /\ pc[t] = "ru_write" /\ ~halted
  /\ \/ /\ usersFile' = Snapshot(MarshalUsers(loc[t].list))
        /\ loc' = [loc EXCEPT ![t].err = Nil, ![t].wrote = "written"]
     \/ /\ usersFile' \in {usersFile, Garbage}
        /\ loc' = [loc EXCEPT ![t].err = Nil, ![t].wrote = "failed"]
  /\ Goto(t, "returned")
  /\ UNCHANGED <<cacheVars, clientVars, channelsFile, setupVars, everMerged, calls, halted>>

(***************************************************************************)
(* GetChannels.                                                            *)
(***************************************************************************)
\* the channelTypes arguments of the callers
RequestedTypes == {<< >>, <<"im">>, <<"public_channel", "mpim">>}

\* ap.GetChannels(ctx, channelTypes): if len(channelTypes) == 0 { channelTypes
\* = AllChanTypes }.
\* clientGeneric, err := ap.ProvideGeneric() is the call of ProvideGeneric that
\* comes back at "gc_enterprise".
CallGetChannels(t) ==
  /\ pc[t] = "idle" /\ ~halted /\ calls < MaxCalls
  /\ calls' = calls + 1
  /\ Goto(t, "pg_check")
  /\ \E channelTypes \in RequestedTypes :
       loc' = [loc EXCEPT ![t].op = "GetChannels", ![t].auth0 = authTests,
                          ![t].ret = "gc_enterprise", ![t].gret = "returned",
                          ![t].types = IF Len(channelTypes) = 0
                                       THEN AllChanTypes ELSE channelTypes]
  /\ UNCHANGED <<cacheVars, clientVars, diskVars, setupVars, everMerged, halted>>

\* ProvideEnterprise: if ap.clientEnterprise == nil { ap.clientEnterprise, _ =
\* edge.NewWithInfo(ap.authResponse, ap.authProvider, ...Cookies()) }.
\* ap.authProvider.Cookies() on the nil pointer panics.
ProvideEnterprise(t, label, after) ==
  /\ pc[t] = label /\ ~halted
  /\ IF clientEnterprise # NoClient
     THEN /\ Goto(t, after)
          /\ UNCHANGED <<clientEnterprise, edgeClientsMade, halted>>
     ELSE IF authProvider = Nil
     THEN /\ halted' = TRUE
          /\ UNCHANGED <<clientEnterprise, edgeClientsMade, pc>>
     ELSE /\ clientEnterprise' = edgeClientsMade + 1
          /\ edgeClientsMade' = edgeClientsMade + 1
          /\ Goto(t, after)
          /\ UNCHANGED halted
  /\ UNCHANGED <<cacheVars, clientGeneric, authProvider, authResponse,
                 authTests, identitySets, clientsMade, diskVars, setupVars, everMerged, loc, calls>>

GetChannels_ProvideEnterprise(t) == ProvideEnterprise(t, "gc_enterprise", "gc_page")

\* a caller asks for the enterprise client
CallProvideEnterprise(t) ==
  /\ pc[t] = "idle" /\ ~halted /\ calls < MaxCalls
  /\ calls' = calls + 1
  /\ Goto(t, "pe_check")
  /\ loc' = [loc EXCEPT ![t].op = "ProvideEnterprise", ![t].auth0 = authTests]
  /\ UNCHANGED <<cacheVars, clientVars, diskVars, setupVars, everMerged, halted>>

\* the call made by that caller; the handle returned is ap.clientEnterprise
ProvideEnterprise_Called(t) == ProvideEnterprise(t, "pe_check", "returned")

\* the channels of one page as mapChannel derives them from the user map
MapPage(page, usersMap) ==
  [k \in 1..Len(page) |->
     mapChannel(page[k].ID, page[k].Name, page[k].NameNormalized,
                page[k].Topic, page[k].Purpose, page[k].User, page[k].Members,
                page[k].NumMembers, page[k].IsIM, page[k].IsMpIM,
                page[k].IsPrivate, usersMap)]

\* Mutant of NotArchived: the enterprise branch maps every conversation of
\* the response.
NotArchived_NoFilter(page) == page

\* if params.ExcludeArchived && channel.IsArchived { continue }
NotArchived(page) == SelectSeq(page, LAMBDA c : ~c.IsArchived)

Cursors == {<< >>, <<"next">>}

\* Mutant of params: the type filter is the list of types that the caller
\* asked for.
params_AsRequested(channelTypes) ==
  [Types |-> channelTypes, Limit |-> 999, ExcludeArchived |-> TRUE]

\* params := &slack.GetConversationsParameters{Types: AllChanTypes, Limit: 999,
\* ExcludeArchived: true}, whatever channelTypes is
params(channelTypes) ==
  [Types |-> AllChanTypes, Limit |-> 999, ExcludeArchived |-> TRUE]

\* the page request that thread t issues: the protocol is chosen by
\* ap.authResponse.EnterpriseID; the enterprise request carries no parameters
Request(t) ==
  IF authResponse.EnterpriseID = << >>
  THEN [proto |-> "standard", Types |-> params(loc[t].types).Types,
        ExcludeArchived |-> params(loc[t].types).ExcludeArchived]
  ELSE [proto |-> "enterprise", Types |-> << >>, ExcludeArchived |-> FALSE]

\* the IDs that a page reports as archived
ArchivedIn(page) == {page[k].ID : k \in {j \in DOMAIN page : page[j].IsArchived}}

\* Mutant of GetChannels_Page: a failed page request is tried again instead
\* of leaving the loop.
GetChannels_Page_Retry(t) ==
  /\ pc[t] = "gc_page" /\ ~halted
  /\ \/ /\ UNCHANGED pc
        /\ loc[t].reqs < MaxPages
        /\ loc' = [loc EXCEPT ![t].reqs = @ + 1, ![t].pageErr = TRUE,
                              ![t].sent = Request(t)]
     \/ /\ authResponse.EnterpriseID = << >>
        /\ \E page \in StandardPages(params(loc[t].types)), cursor \in Cursors :
             /\ cursor # << >> => loc[t].reqs + 1 < MaxPages
             /\ loc' = [loc EXCEPT
                          ![t].reqs = @ + 1,
                          ![t].sent = Request(t),
                          ![t].chans = @ \o MapPage(page, users),
                          ![t].nextcur = cursor]
        /\ Goto(t, "gc_wait")
     \/ /\ authResponse.EnterpriseID # << >>
        /\ \E page \in EnterprisePages :
             loc' = [loc EXCEPT
                       ![t].reqs = @ + 1,
                       ![t].sent = Request(t),
                       ![t].archived = @ \cup ArchivedIn(page),
                       ![t].chans = @ \o MapPage(NotArchived(page), users)]
        /\ Goto(t, "gc_wait")
  /\ UNCHANGED <<cacheVars, clientVars, diskVars, setupVars, everMerged, calls,
                 halted>>

\* One pass of the loop up to lim.Wait: the page request of the protocol that
\* the recorded identity selects, and the mapping of what came back, appended
\* to chans. A failed request leaves the loop.
GetChannels_Page(t) ==
  /\ pc[t] = "gc_page" /\ ~halted
  /\ \/ /\ Goto(t, "gc_result")
        /\ loc' = [loc EXCEPT ![t].reqs = @ + 1, ![t].pageErr = TRUE,
                              ![t].sent = Request(t)]
     \/ /\ authResponse.EnterpriseID = << >>
        /\ \E page \in StandardPages(params(loc[t].types)), cursor \in Cursors :
             /\ cursor # << >> => loc[t].reqs + 1 < MaxPages
             /\ loc' = [loc EXCEPT
                          ![t].reqs = @ + 1,
                          ![t].sent = Request(t),
                          ![t].chans = @ \o MapPage(page, users),
                          ![t].nextcur = cursor]
        /\ Goto(t, "gc_wait")
     \/ /\ authResponse.EnterpriseID # << >>
        /\ \E page \in EnterprisePages :
             loc' = [loc EXCEPT
                       ![t].reqs = @ + 1,
                       ![t].sent = Request(t),
                       ![t].archived = @ \cup ArchivedIn(page),
                       ![t].chans = @ \o MapPage(NotArchived(page), users)]
        /\ Goto(t, "gc_wait")
  /\ UNCHANGED <<cacheVars, clientVars, diskVars, setupVars, everMerged, calls, halted>>

\* Mutant of GetChannels_Wait: the error of a cancelled wait is dropped and
\* the loop goes on.
GetChannels_Wait_ErrorDropped(t) ==
  /\ pc[t] = "gc_wait" /\ ~halted
  /\ \/ /\ Goto(t, "gc_merge")
        /\ loc' = [loc EXCEPT ![t].permits = @ + 1, ![t].i = 1, ![t].stmt = 1]
     \/ /\ Goto(t, "gc_merge")
        /\ loc' = [loc EXCEPT ![t].cancelled = TRUE, ![t].i = 1, ![t].stmt = 1]
  /\ UNCHANGED <<cacheVars, clientVars, diskVars, setupVars, everMerged, calls, halted>>

\* if err := lim.Wait(ctx); err != nil { return nil }
GetChannels_Wait(t) ==
  /\ pc[t] = "gc_wait" /\ ~halted
  /\ \/ /\ Goto(t, "gc_merge")
        /\ loc' = [loc EXCEPT ![t].permits = @ + 1, ![t].i = 1, ![t].stmt = 1]
     \/ /\ Goto(t, loc[t].gret)
        /\ loc' = [loc EXCEPT ![t].cancelled = TRUE, ![t].res = << >>]
  /\ UNCHANGED <<cacheVars, clientVars, diskVars, setupVars, everMerged, calls, halted>>

\* Mutant of StoreChannelStatement: the conversation map is started afresh
\* with each conversation stored.
StoreChannelStatement_Afresh(ch, stmt) ==
  /\ channels' = IF stmt = 1 THEN Put(EmptyMap, ch.ID, ch) ELSE channels
  /\ channelsInv' = IF stmt = 2
                    THEN Put(channelsInv, ch.Name, ch.ID) ELSE channelsInv

\* One statement of a loop that stores conversations:
\*   1  ap.channels[ch.ID] = ch
\*   2  ap.channelsInv[ch.Name] = ch.ID
StoreChannelStatement(ch, stmt) ==
  /\ channels' = IF stmt = 1 THEN Put(channels, ch.ID, ch) ELSE channels
  /\ channelsInv' = IF stmt = 2
                    THEN Put(channelsInv, ch.Name, ch.ID) ELSE channelsInv

\* for _, ch := range chans { ... }: every conversation mapped so far in this
\* call, those of the earlier pages included
GetChannels_Merge(t) ==
  /\ pc[t] = "gc_merge" /\ ~halted
  /\ IF loc[t].i > Len(loc[t].chans)
     THEN /\ Goto(t, "gc_cursor")
          /\ loc' = [loc EXCEPT ![t].merged = Len(loc[t].chans)]
          /\ UNCHANGED <<channels, channelsInv, everMerged>>
     ELSE /\ StoreChannelStatement(loc[t].chans[loc[t].i], loc[t].stmt)
          /\ everMerged' =
               IF loc[t].stmt = 1
               THEN [everMerged EXCEPT !.channels = @ \cup {loc[t].chans[loc[t].i]}]
               ELSE everMerged
          /\ loc' = [loc EXCEPT
                       ![t].stmt = IF @ = 2 THEN 1 ELSE 2,
                       ![t].i = IF loc[t].stmt = 2 THEN @ + 1 ELSE @]
          /\ UNCHANGED pc
  /\ UNCHANGED <<users, usersInv, usersDisplayNameInv, usersRealNameInv,
                 usersEmailInv, clientVars, diskVars, setupVars, calls, halted>>

\* Mutant of GetChannels_Cursor: the loop asks for a fixed number of pages
\* and does not look at the cursor.
GetChannels_Cursor_FixedPages(t) ==
  /\ pc[t] = "gc_cursor" /\ ~halted
  /\ IF loc[t].reqs >= MaxPages
     THEN Goto(t, "gc_result")
     ELSE Goto(t, "gc_page")
  /\ UNCHANGED <<cacheVars, clientVars, diskVars, setupVars, everMerged, loc, calls, halted>>

\* if nextcur == "" { break }; params.Cursor = nextcur
GetChannels_Cursor(t) ==
  /\ pc[t] = "gc_cursor" /\ ~halted
  /\ IF loc[t].nextcur = << >>
     THEN Goto(t, "gc_result")
     ELSE Goto(t, "gc_page")
  /\ UNCHANGED <<cacheVars, clientVars, diskVars, setupVars, everMerged, loc, calls, halted>>

\* the type test of the result loop
OfType(channel, type) ==
  \/ type = "public_channel" /\ ~channel.IsPrivate
  \/ type = "private_channel" /\ channel.IsPrivate
  \/ type = "im" /\ channel.IsIM
  \/ type = "mpim" /\ channel.IsMpIM

\* the enumerations of a finite set: Go ranges over a map in any order
Orderings(S) ==
  {s \in [1..Cardinality(S) -> S] : \A x \in S : \E k \in DOMAIN s : s[k] = x}

\* for _, t := range channelTypes { for _, channel := range ap.channels { ... } }
RECURSIVE Results(_, _)
Results(types, chanMap) ==
  IF Len(types) = 0 THEN {<< >>}
  ELSE LET matching == {chanMap[id] : id \in {x \in DOMAIN chanMap :
                                                OfType(chanMap[x], types[1])}}
       IN {first \o rest : first \in Orderings(matching),
                           rest \in Results(Tail(types), chanMap)}

GetChannels_Result(t) ==
  /\ pc[t] = "gc_result" /\ ~halted
  /\ \E res \in Results(loc[t].types, channels) :
       loc' = [loc EXCEPT ![t].res = res]
  /\ Goto(t, loc[t].gret)
  /\ UNCHANGED <<cacheVars, clientVars, diskVars, setupVars, everMerged, calls, halted>>

(***************************************************************************)
(* RefreshChannels.                                                        *)
(***************************************************************************)
CallRefreshChannels(t) ==
  /\ pc[t] = "idle" /\ ~halted /\ calls < MaxCalls
  /\ calls' = calls + 1
  /\ Goto(t, "rc_read")
  /\ loc' = [loc EXCEPT ![t].op = "RefreshChannels", ![t].auth0 = authTests]
  /\ UNCHANGED <<cacheVars, clientVars, diskVars, setupVars, everMerged, halted>>

\* ioutil.ReadFile(ap.channelsCache) and json.Unmarshal(data, &cachedChannels);
\* without a snapshot that parses: channels := ap.GetChannels(ctx, AllChanTypes)
RefreshChannels_ReadCache(t) ==
  /\ pc[t] = "rc_read" /\ ~halted
  /\ IF Parses(channelsFile)
     THEN /\ Goto(t, "rc_load")
          /\ loc' = [loc EXCEPT ![t].list = channelsFile.data,
                                ![t].i = 1, ![t].stmt = 1,
                                ![t].snap = channelsFile.kind]
     ELSE /\ Goto(t, "pg_check")
          /\ loc' = [loc EXCEPT ![t].ret = "gc_enterprise",
                                ![t].gret = "rc_write",
                                ![t].types = AllChanTypes,
                                ![t].snap = channelsFile.kind]
  /\ UNCHANGED <<cacheVars, clientVars, diskVars, setupVars, everMerged, calls, halted>>

\* Mutant of Reloaded: every record is stored as the snapshot has it.
Reloaded_Verbatim(c, usersMap) == c

\* Mutant of Reloaded: every record goes through mapChannel again.
Reloaded_AllRemapped(c, usersMap) ==
  mapChannel(c.ID, << >>, << >>, c.Topic, c.Purpose, c.User, c.Members,
             c.MemberCount, c.IsIM, c.IsMpIM, c.IsPrivate, usersMap)

\* the entry that the load loop stores for the snapshot record c: usersMap is
\* ap.ProvideUsersMap().Users, the user map of the cache itself
Reloaded(c, usersMap) ==
  IF c.IsIM
  THEN mapChannel(c.ID, << >>, << >>, c.Topic, c.Purpose, c.User, c.Members,
                  c.MemberCount, c.IsIM, c.IsMpIM, c.IsPrivate, usersMap)
  ELSE c

\* for _, c := range cachedChannels { ... }; return nil
RefreshChannels_Load(t) ==
  /\ pc[t] = "rc_load" /\ ~halted
  /\ IF loc[t].i > Len(loc[t].list)
     THEN /\ Goto(t, "returned")
          /\ loc' = [loc EXCEPT ![t].err = Nil]
          /\ UNCHANGED <<channels, channelsInv, everMerged>>
     ELSE /\ LET ch == IF loc[t].stmt = 1
                       THEN Reloaded(loc[t].list[loc[t].i], users)
                       ELSE loc[t].chans[1]
             IN /\ StoreChannelStatement(ch, loc[t].stmt)
                /\ everMerged' =
                     IF loc[t].stmt = 1
                     THEN [everMerged EXCEPT !.channels = @ \cup {ch}]
                     ELSE everMerged
                /\ loc' = [loc EXCEPT
                             ![t].chans = IF loc[t].stmt = 1 THEN <<ch>> ELSE << >>,
                             ![t].stmt = IF @ = 2 THEN 1 ELSE 2,
                             ![t].i = IF loc[t].stmt = 2 THEN @ + 1 ELSE @]
          /\ UNCHANGED pc
  /\ UNCHANGED <<users, usersInv, usersDisplayNameInv, usersRealNameInv,
                 usersEmailInv, clientVars, diskVars, setupVars, calls, halted>>

\* json.MarshalIndent(channels, ...) and ioutil.WriteFile(ap.channelsCache, ...)
\* with what GetChannels returned (nil is written as an empty list); return nil
RefreshChannels_WriteCache(t) ==
  /\ pc[t] = "rc_write" /\ ~halted
  /\ \/ /\ channelsFile' = Snapshot(loc[t].res)
        /\ loc' = [loc EXCEPT ![t].err = Nil, ![t].wrote = "written"]
     \/ /\ channelsFile' \in {channelsFile, Garbage}
        /\ loc' = [loc EXCEPT ![t].err = Nil, ![t].wrote = "failed"]
  /\ Goto(t, "returned")
  /\ UNCHANGED <<cacheVars, clientVars, usersFile, setupVars, everMerged, calls, halted>>

(***************************************************************************)
(* The bulk accessors and the user-resolve handler that scans their view.  *)
(***************************************************************************)
ProvideUsersMap ==
  [Users |-> "users", UsersInv |-> "usersInv",
   UsersDisplayNameInv |-> "usersDisplayNameInv",
   UsersRealNameInv |-> "usersRealNameInv", UsersEmailInv |-> "usersEmailInv"]

ProvideChannelsMaps == [Channels |-> "channels", ChannelsInv |-> "channelsInv"]

\* the map object that a map reference denotes, as it is now
Deref(ref) ==
  CASE ref = "users" -> users
    [] ref = "usersInv" -> usersInv
    [] ref = "usersDisplayNameInv" -> usersDisplayNameInv
    [] ref = "usersRealNameInv" -> usersRealNameInv
    [] ref = "usersEmailInv" -> usersEmailInv
    [] ref = "channels" -> channels
    [] ref = "channelsInv" -> channelsInv

CallUsersResolve(t) ==
  /\ pc[t] = "idle" /\ ~halted /\ calls < MaxCalls
  /\ calls' = calls + 1
  /\ Goto(t, "ur_view")
  /\ loc' = [loc EXCEPT ![t].op = "UsersResolve"]
  /\ UNCHANGED <<cacheVars, clientVars, diskVars, setupVars, everMerged, halted>>

\* a caller asks for the conversation maps
CallProvideChannelsMaps(t) ==
  /\ pc[t] = "idle" /\ ~halted /\ calls < MaxCalls
  /\ calls' = calls + 1
  /\ Goto(t, "cm_view")
  /\ loc' = [loc EXCEPT ![t].op = "ProvideChannelsMaps"]
  /\ UNCHANGED <<cacheVars, clientVars, diskVars, setupVars, everMerged, halted>>

\* return &ChannelsCache{Channels: ap.channels, ChannelsInv: ap.channelsInv}
ChannelsMaps_Return(t) ==
  /\ pc[t] = "cm_view" /\ ~halted
  /\ Goto(t, "returned")
  /\ loc' = [loc EXCEPT ![t].cview = ProvideChannelsMaps, ![t].err = Nil]
  /\ UNCHANGED <<cacheVars, clientVars, diskVars, setupVars, everMerged, calls, halted>>

\* Mutant of UsersResolve_GetView: a handler that finds the user directory
\* empty has it fetched first.
UsersResolve_GetView_FetchIfEmpty(t) ==
  /\ pc[t] = "ur_view" /\ ~halted
  /\ IF users = EmptyMap
     THEN /\ Goto(t, "pg_check")
          /\ loc' = [loc EXCEPT ![t].ret = "ru_fetch"]
     ELSE /\ Goto(t, "ur_scan")
          /\ loc' = [loc EXCEPT ![t].view = ProvideUsersMap,
                                ![t].viewAt = users, ![t].visited = {}]
  /\ UNCHANGED <<cacheVars, clientVars, diskVars, setupVars, everMerged, calls, halted>>

\* usersMap := uh.apiProvider.ProvideUsersMap(); viewAt keeps what the maps
\* held at this moment
UsersResolve_GetView(t) ==
  /\ pc[t] = "ur_view" /\ ~halted
  /\ Goto(t, "ur_scan")
  /\ loc' = [loc EXCEPT ![t].view = ProvideUsersMap, ![t].viewAt = users,
                        ![t].visited = {}]
  /\ UNCHANGED <<cacheVars, clientVars, diskVars, setupVars, everMerged, calls, halted>>

\* for userID, user := range usersMap.Users { ... }: one user per step, in any
\* order, until none is left
UsersResolve_Scan(t) ==
  /\ pc[t] = "ur_scan" /\ ~halted
  /\ LET left == (DOMAIN Deref(loc[t].view.Users)) \ loc[t].visited
     IN IF left = {}
        THEN Finish(t, Nil)
        ELSE /\ \E id \in left :
                  loc' = [loc EXCEPT ![t].visited = @ \cup {id}]
             /\ UNCHANGED pc
  /\ UNCHANGED <<cacheVars, clientVars, diskVars, setupVars, everMerged, calls, halted>>

\* the caller takes the result; the thread is free for the next operation
Return(t) ==
  /\ pc[t] = "returned" /\ ~halted
  /\ Goto(t, "idle")
  /\ loc' = [loc EXCEPT ![t] = LocInit]
  /\ UNCHANGED <<cacheVars, clientVars, diskVars, setupVars, everMerged, calls, halted>>

\* every step of an operation under way
Step(t) ==
  \/ ProvideGeneric_Check(t)
  \/ Boot_AuthTest(t)
  \/ Boot_SetIdentity(t)
  \/ ProvideGeneric_Assign(t)
  \/ RefreshUsers_ReadCache(t)
  \/ RefreshUsers_Fetch(t)
  \/ RefreshUsers_LoadCached(t)
  \/ RefreshUsers_Merge(t)
  \/ RefreshUsers_WriteCache(t)
  \/ GetChannels_ProvideEnterprise(t)
  \/ ProvideEnterprise_Called(t)
  \/ GetChannels_Page(t)
  \/ GetChannels_Wait(t)
  \/ GetChannels_Merge(t)
  \/ GetChannels_Cursor(t)
  \/ GetChannels_Result(t)
  \/ RefreshChannels_ReadCache(t)
  \/ RefreshChannels_Load(t)
  \/ RefreshChannels_WriteCache(t)
  \/ UsersResolve_GetView(t)
  \/ UsersResolve_Scan(t)
  \/ ChannelsMaps_Return(t)
  \/ Return(t)

\* the start of an operation
Call(t) ==
  \/ CallProvideGeneric(t)
  \/ CallRefreshUsers(t)
  \/ CallRefreshChannels(t)
  \/ CallGetChannels(t)
  \/ CallUsersResolve(t)
  \/ CallProvideChannelsMaps(t)
  \/ CallProvideEnterprise(t)

\* One caller: the operations follow one another, none overlaps another.
\* What the process finds on disk when it starts: no snapshot, a file that
\* does not parse, or the snapshot that an earlier process wrote (its
\* conversations derived against the user directory it had, here none).
StartupUserLists ==
  {us \in UserLists : Len(us) = 2 /\ us[1].Name = <<"alice">>}
StartupChannelLists ==
  {MapPage(p, EmptyMap) :
     p \in {q \in [1..3 -> RemoteChannels] :
              q[1].ID = <<"D1">> /\ q[2].ID = <<"C1">> /\ q[3].ID = <<"G1">>}}
StartupUsersFiles ==
  {Absent, Garbage} \cup {Snapshot(MarshalUsers(us)) : us \in StartupUserLists}
StartupChannelsFiles ==
  {Absent, Garbage} \cup {Snapshot(cs) : cs \in StartupChannelLists}

Init ==
  /\ Fresh
  /\ usersFile \in StartupUsersFiles /\ channelsFile \in StartupChannelsFiles
  /\ grid \in EnterpriseIDs
  /\ env = UserTokenEnv /\ provider = New(env, FALSE)

Next == Call("T1") \/ Step("T1")

Spec == Init /\ [][Next]_vars

\* The goroutine of the caller keeps running: a step of the operation under
\* way that can be taken is taken.
LiveSpec == Spec /\ WF_vars(Step("T1"))

(***************************************************************************)
(* Concurrent callers of the user directory: refreshes, client boots and   *)
(* handler scans that overlap.  The provider takes no lock: two operations *)
(* that are at an access of the same map, one of them writing, are a data  *)
(* race.  The Go runtime may detect it and end the process ("fatal error:  *)
(* concurrent map writes", "concurrent map read and map write"); when it   *)
(* does not, the write takes effect or is lost.                            *)
(***************************************************************************)
NoMap == "none"

\* the map that the next step of t writes
WritesNext(t) ==
  IF pc[t] \in {"ru_load", "ru_merge"} /\ loc[t].i <= Len(loc[t].list)
  THEN LET u == loc[t].list[loc[t].i]
       IN CASE loc[t].stmt = 1 -> "users"
            [] loc[t].stmt = 2 -> "usersInv"
            [] loc[t].stmt = 3 ->
                 IF u.DisplayName # << >> THEN "usersDisplayNameInv" ELSE NoMap
            [] loc[t].stmt = 4 ->
                 IF u.RealName # << >> THEN "usersRealNameInv" ELSE NoMap
            [] loc[t].stmt = 5 ->
                 IF u.Email # << >> THEN "usersEmailInv" ELSE NoMap
  ELSE NoMap

\* the maps that the next step of t reads
ReadsNext(t) == IF pc[t] = "ur_scan" THEN {loc[t].view.Users} ELSE {}

Racing(t) ==
  \E o \in Threads \ {t} :
    \/ WritesNext(t) # NoMap
       /\ (WritesNext(o) = WritesNext(t) \/ WritesNext(t) \in ReadsNext(o))
    \/ WritesNext(o) \in ReadsNext(t)

\* the racing write of t does not take effect
RaceLostWrite(t) ==
  /\ Racing(t) /\ WritesNext(t) # NoMap
  /\ \/ MergeUsersStep(t, "ru_load", "returned", FALSE)
     \/ MergeUsersStep(t, "ru_merge", "ru_write", FALSE)

\* the runtime detects the race and ends the process
RaceFatal(t) ==
  /\ Racing(t) /\ ~halted
  /\ halted' = TRUE
  /\ UNCHANGED <<cacheVars, clientVars, diskVars, setupVars, everMerged, pc, loc, calls>>

ConcCall(t) ==
  \/ CallProvideGeneric(t)
  \/ CallRefreshUsers(t)
  \/ CallUsersResolve(t)

ConcStep(t) ==
  \/ ProvideGeneric_Check(t)
  \/ Boot_AuthTest(t)
  \/ Boot_SetIdentity(t)
  \/ ProvideGeneric_Assign(t)
  \/ RefreshUsers_ReadCache(t)
  \/ RefreshUsers_Fetch(t)
  \/ RefreshUsers_LoadCached(t)
  \/ RefreshUsers_Merge(t)
  \/ RefreshUsers_WriteCache(t)
  \/ UsersResolve_GetView(t)
  \/ UsersResolve_Scan(t)

\* Each goroutine makes one call (calls in a row by one caller are Spec's);
\* the goroutines are interchangeable, so the first call is T1's.
ConcNext ==
  \/ ConcCall("T1")
  \/ pc["T1"] # "idle" /\ ConcCall("T2")
  \/ \E t \in Threads : ConcStep(t) \/ RaceLostWrite(t) \/ RaceFatal(t)

\* the user directory does not depend on the enterprise grid; the process
\* starts without snapshots
ConcInit ==
  Init /\ grid = << >> /\ usersFile = Absent /\ channelsFile = Absent

ConcSpec == ConcInit /\ [][ConcNext]_vars

(***************************************************************************)
(* Start-up: New is called on the environment, then the provider is used.  *)
(***************************************************************************)
\* Mutant of CallNew: the constructor performs the identity round trip
\* itself, before it looks at the slots.
CallNew_EagerBoot ==
  /\ provider.state = "none" /\ ~halted
  /\ \E authErr \in BOOLEAN : provider' = New(env, authErr)
  /\ halted' = (provider'.state = "panicked")
  /\ authTests' = authTests + 1 /\ clientsMade' = clientsMade + 1
  /\ UNCHANGED <<cacheVars, clientGeneric, clientEnterprise, authProvider,
                 authResponse, identitySets, edgeClientsMade, diskVars, grid,
                 env, everMerged, pc, loc, calls>>

\* provider := New(); a panic ends the process
CallNew ==
  /\ provider.state = "none" /\ ~halted
  /\ \E authErr \in BOOLEAN : provider' = New(env, authErr)
  /\ halted' = (provider'.state = "panicked")
  /\ UNCHANGED <<cacheVars, clientVars, diskVars, grid, env, everMerged, pc,
                 loc, calls>>

\* the first use of the provider that New returned
FirstUse == provider.state = "built" /\ CallProvideGeneric("T1")

NewNext ==
  \/ CallNew
  \/ FirstUse
  \/ ProvideGeneric_Check("T1")
  \/ Boot_AuthTest("T1")
  \/ Boot_SetIdentity("T1")
  \/ ProvideGeneric_Assign("T1")
  \/ Return("T1")

NewInit ==
  /\ Fresh
  /\ usersFile = Absent /\ channelsFile = Absent
  /\ grid \in EnterpriseIDs
  /\ env \in Envs /\ provider = NotBuilt

NewSpec == NewInit /\ [][NewNext]_vars

(***************************************************************************)
(* The Name/Purpose Deriver on its own: mapChannel applied to one          *)
(* conversation record against one user directory.                         *)
(***************************************************************************)
U9 == <<"U9">>     \* an ID that no directory holds

\* the users that a directory can hold
DirectoryUsers ==
  { [ID |-> U1, Name |-> <<"alicia">>, DisplayName |-> << >>,
     RealName |-> <<"Alice A">>, Email |-> << >>],
    [ID |-> U2, Name |-> <<"bob">>, DisplayName |-> << >>,
     RealName |-> <<"Bob B">>, Email |-> << >>] }

\* usersMap: a map from the IDs of some of them to their records
Directories ==
  {[id \in {u.ID : u \in S} |-> CHOOSE u \in S : u.ID = id] :
     S \in SUBSET DirectoryUsers}

\* the arguments of mapChannel other than usersMap
MapInputs ==
  [ID : {<<"X1">>}, Name : {<<"Grp">>}, NameNormalized : {<<"grp">>},
   Topic : {<< >>, <<"topic">>}, Purpose : {<< >>, <<"purpose">>},
   User : {<< >>, U1, U9},
   Members : {<< >>, <<U1>>, <<U9>>, <<U9, U2>>, <<U2, U1>>},
   NumMembers : {0, 5},
   IsIM : BOOLEAN, IsMpIM : BOOLEAN, IsPrivate : BOOLEAN,
   IsArchived : {FALSE}]

\* what the conversation cache holds when mapChannel is called: nothing, or
\* an entry under the ID of the record in hand
StaleChannel ==
  [ID |-> <<"X1">>, Name |-> <<"#", "stale">>, Topic |-> << >>,
   Purpose |-> << >>, MemberCount |-> 1, IsMpIM |-> FALSE, IsIM |-> FALSE,
   IsPrivate |-> FALSE, User |-> << >>, Members |-> << >>]
MapCaches == {EmptyMap, Put(EmptyMap, StaleChannel.ID, StaleChannel)}

\* Mutant of CallMapChannel: the deriver keeps what it derived and answers
\* from the conversation cache when it has the ID.
CallMapChannel_Memoized(t) ==
  /\ pc[t] = "map_call" /\ ~halted
  /\ LET c == loc[t].list[1]
         ch == IF Has(channels, c.ID) THEN channels[c.ID]
               ELSE MapPage(loc[t].list, users)[1]
     IN /\ loc' = [loc EXCEPT ![t].chans = <<ch>>]
        /\ channels' = Put(channels, c.ID, ch)
  /\ Goto(t, "mapped")
  /\ UNCHANGED <<users, usersInv, usersDisplayNameInv, usersRealNameInv,
                 usersEmailInv, channelsInv, clientVars, diskVars, setupVars,
                 everMerged, calls, halted>>

\* ch := mapChannel(c.ID, c.Name, ..., usersMap) for the record c in hand
CallMapChannel(t) ==
  /\ pc[t] = "map_call" /\ ~halted
  /\ loc' = [loc EXCEPT ![t].chans = MapPage(loc[t].list, users)]
  /\ Goto(t, "mapped")
  /\ UNCHANGED <<cacheVars, clientVars, diskVars, setupVars, everMerged, calls, halted>>

\* a second call of mapChannel with the same arguments
CallMapChannelAgain(t) ==
  /\ pc[t] = "mapped" /\ ~halted
  /\ loc' = [loc EXCEPT ![t].res = MapPage(loc[t].list, users)]
  /\ Goto(t, "mapped_again")
  /\ UNCHANGED <<cacheVars, clientVars, diskVars, setupVars, everMerged, calls, halted>>

MapNext == CallMapChannel("T1") \/ CallMapChannelAgain("T1")

MapInit ==
  /\ users \in Directories
  /\ usersInv = EmptyMap /\ usersDisplayNameInv = EmptyMap
  /\ usersRealNameInv = EmptyMap /\ usersEmailInv = EmptyMap
  /\ channels \in MapCaches
  /\ channelsInv = [n \in {channels[id].Name : id \in DOMAIN channels} |->
                      StaleChannel.ID]
  /\ clientGeneric = NoClient /\ clientEnterprise = NoClient
  /\ authProvider = Nil /\ authResponse = NoIdentity
  /\ everMerged = [users |-> {}, channels |-> {}]
  /\ pc = [t \in Threads |-> IF t = "T1" THEN "map_call" ELSE "idle"]
  /\ \E c \in MapInputs :
       loc = [t \in Threads |->
                IF t = "T1"
                THEN [LocInit EXCEPT !.op = "mapChannel", !.list = <<c>>]
                ELSE LocInit]
  /\ authTests = 0 /\ identitySets = 0 /\ clientsMade = 0
  /\ edgeClientsMade = 0 /\ calls = 0 /\ halted = FALSE
  /\ usersFile = Absent /\ channelsFile = Absent /\ grid = << >>
  /\ env = UserTokenEnv /\ provider = New(env, FALSE)

MapSpec == MapInit /\ [][MapNext]_vars

(***************************************************************************)
(* The text of a message (package text), checked alone.  A line break and  *)
(* a blank are tokens of their own.                                        *)
(***************************************************************************)
Space == {" ", "\n"}

\* strings.TrimSpace
RECURSIVE TrimLeft(_)
TrimLeft(s) ==
  IF Len(s) > 0 /\ s[1] \in Space THEN TrimLeft(Tail(s)) ELSE s
RECURSIVE TrimRight(_)
TrimRight(s) ==
  IF Len(s) > 0 /\ s[Len(s)] \in Space
  THEN TrimRight(SubSeq(s, 1, Len(s) - 1)) ELSE s
TrimSpace(s) == TrimRight(TrimLeft(s))

\* parts = append(parts, more...) over a list of lists
RECURSIVE ConcatAll(_)
ConcatAll(ss) == IF Len(ss) = 0 THEN << >> ELSE ss[1] \o ConcatAll(Tail(ss))

\* the text of the block when it has one, then the text of each field
extractTextFromSectionBlock(block) ==
  (IF block.HasText THEN <<block.Text>> ELSE << >>) \o block.Fields

\* the parts of every section and header block, joined by line breaks (the
\* blocks of the other types listed in the switch do not occur here; a block
\* of an unlisted type adds nothing)
extractTextFromBlocks(blocks) ==
  Join(ConcatAll([i \in DOMAIN blocks |->
         IF blocks[i].Type = "section"
         THEN extractTextFromSectionBlock(blocks[i])
         ELSE IF blocks[i].Type = "header" /\ blocks[i].HasText
         THEN <<blocks[i].Text>>
         ELSE << >>]), <<"\n">>)

\* title (with its link), pretext, text, author, footer and nested blocks of
\* each attachment (attachment fields do not occur here)
AttachmentParts(att) ==
  (IF att.Title # << >>
   THEN <<att.Title \o (IF att.TitleLink # << >>
                         THEN <<" (">> \o att.TitleLink \o <<")">>
                         ELSE << >>)>>
   ELSE << >>)
  \o (IF att.Pretext # << >> THEN <<att.Pretext>> ELSE << >>)
  \o (IF att.Text # << >> THEN <<att.Text>> ELSE << >>)
  \o (IF att.AuthorName # << >> THEN <<<<"Author: ">> \o att.AuthorName>>
      ELSE << >>)
  \o (IF att.Footer # << >> THEN <<att.Footer>> ELSE << >>)
  \o (IF Len(att.Blocks) > 0 /\ extractTextFromBlocks(att.Blocks) # << >>
      THEN <<extractTextFromBlocks(att.Blocks)>> ELSE << >>)

extractTextFromAttachments(attachments) ==
  Join(ConcatAll([i \in DOMAIN attachments |->
                    AttachmentParts(attachments[i])]), <<"\n">>)

\* "[File: name]" or "[File: title (name)]", then the preview when present
FileParts(file) ==
  <<IF file.Title # << >> /\ file.Title # file.Name
    THEN <<"[File: ">> \o file.Title \o <<" (">> \o file.Name \o <<")]">>
    ELSE <<"[File: ">> \o file.Name \o <<"]">>>>
  \o (IF file.PreviewHighlight # << >> THEN <<file.PreviewHighlight>>
      ELSE << >>)

extractTextFromFiles(files) ==
  Join(ConcatAll([i \in DOMAIN files |-> FileParts(files[i])]), <<"\n">>)

\* the parts that are not blank once trimmed, each kept the first time it is
\* seen
RECURSIVE Unique(_, _)
Unique(parts, seen) ==
  IF Len(parts) = 0 THEN << >>
  ELSE LET part == TrimSpace(parts[1])
       IN IF part = << >> \/ part \in seen
          THEN Unique(Tail(parts), seen)
          ELSE <<part>> \o Unique(Tail(parts), seen \cup {part})

\* the unique parts joined by line breaks
deduplicateAndJoin(parts) ==
  IF Len(parts) = 0 THEN << >> ELSE Join(Unique(parts, {}), <<"\n">>)

\* the text, then the text of the blocks, of the attachments and of the
\* files, each when not empty, deduplicated and joined
ExtractTextFromMessage(msg) ==
  deduplicateAndJoin(
    (IF msg.Text # << >> THEN <<msg.Text>> ELSE << >>)
    \o (IF Len(msg.Blocks) > 0 /\ extractTextFromBlocks(msg.Blocks) # << >>
        THEN <<extractTextFromBlocks(msg.Blocks)>> ELSE << >>)
    \o (IF Len(msg.Attachments) > 0
            /\ extractTextFromAttachments(msg.Attachments) # << >>
        THEN <<extractTextFromAttachments(msg.Attachments)>> ELSE << >>)
    \o (IF Len(msg.Files) > 0 /\ extractTextFromFiles(msg.Files) # << >>
        THEN <<extractTextFromFiles(msg.Files)>> ELSE << >>))

\* the messages handed to ExtractTextFromMessage
MaxBlocks == 2       \* blocks of one message
SameText == <<"Same", " ", "text">>
TextBlock(type, text) ==
  [Type |-> type, HasText |-> TRUE, Text |-> text, Fields |-> << >>]
MessageBlocks ==
  {TextBlock("section", SameText), TextBlock("section", <<"More">>),
   TextBlock("header", SameText),
   [Type |-> "section", HasText |-> FALSE, Text |-> << >>,
    Fields |-> <<SameText>>]}
TextAttachment(text) ==
  [Title |-> << >>, TitleLink |-> << >>, Pretext |-> << >>, Text |-> text,
   AuthorName |-> << >>, Footer |-> << >>, Blocks |-> << >>]
MessageFile ==
  [Name |-> <<"a.pdf">>, Title |-> << >>, PreviewHighlight |-> << >>]
Messages ==
  [Text : {<< >>, SameText},
   Blocks : SeqsUpTo(MessageBlocks, MaxBlocks),
   Attachments : {<< >>, <<TextAttachment(SameText)>>,
                  <<TextAttachment(<<"Other">>)>>},
   Files : {<< >>, <<MessageFile>>}]

\* result := ExtractTextFromMessage(msg)
CallExtractText(t) ==
  /\ pc[t] = "text_call" /\ ~halted
  /\ loc' = [loc EXCEPT ![t].res = ExtractTextFromMessage(loc[t].list[1])]
  /\ Goto(t, "extracted")
  /\ UNCHANGED <<cacheVars, clientVars, diskVars, setupVars, everMerged, calls, halted>>

TextNext == CallExtractText("T1")

TextInit ==
  /\ users = EmptyMap /\ usersInv = EmptyMap
  /\ usersDisplayNameInv = EmptyMap /\ usersRealNameInv = EmptyMap
  /\ usersEmailInv = EmptyMap
  /\ channels = EmptyMap /\ channelsInv = EmptyMap
  /\ clientGeneric = NoClient /\ clientEnterprise = NoClient
  /\ authProvider = Nil /\ authResponse = NoIdentity
  /\ everMerged = [users |-> {}, channels |-> {}]
  /\ pc = [t \in Threads |-> IF t = "T1" THEN "text_call" ELSE "idle"]
  /\ \E msg \in Messages :
       loc = [t \in Threads |->
                IF t = "T1"
                THEN [LocInit EXCEPT !.op = "ExtractTextFromMessage",
                                     !.list = <<msg>>]
                ELSE LocInit]
  /\ authTests = 0 /\ identitySets = 0 /\ clientsMade = 0
  /\ edgeClientsMade = 0 /\ calls = 0 /\ halted = FALSE
  /\ usersFile = Absent /\ channelsFile = Absent /\ grid = << >>
  /\ env = UserTokenEnv /\ provider = New(env, FALSE)

TextSpec == TextInit /\ [][TextNext]_vars

(***************************************************************************)
(* Properties.                                                             *)
(***************************************************************************)
\* no operation is under way
Quiescent == \A t \in Threads : pc[t] \in {"idle", "returned"}

\* the index entries that the merge loop writes for the user record u
UserKeys(u) ==
  {<<"usersInv", u.Name>>}
  \cup (IF u.DisplayName # << >>
        THEN {<<"usersDisplayNameInv", normalizeString(u.DisplayName)>>}
        ELSE {})
  \cup (IF u.RealName # << >>
        THEN {<<"usersRealNameInv", normalizeString(u.RealName)>>}
        ELSE {})
  \cup (IF u.Email # << >> THEN {<<"usersEmailInv", u.Email>>} ELSE {})

UserIndices ==
  {"usersInv", "usersDisplayNameInv", "usersRealNameInv", "usersEmailInv"}

\* C1 as stated: after any sequence of merges every cached user ID is the
\* value stored under each of its keys (username, normalized display name,
\* normalized real name, email, the last three when non-empty) and every
\* cached conversation ID is the value stored under its derived name.
C1_EveryIdReachable ==
  Quiescent =>
    /\ \A id \in DOMAIN users : \A ik \in UserKeys(users[id]) :
         Has(Deref(ik[1]), ik[2]) /\ Deref(ik[1])[ik[2]] = id
    /\ \A id \in DOMAIN channels :
         /\ Has(channelsInv, channels[id].Name)
         /\ channelsInv[channels[id].Name] = id

\* C1 as amended: after any sequence of merges each key of every cached user
\* and the derived name of every cached conversation is present in its index,
\* and the ID stored there is that record's ID unless a record of another ID
\* has been merged under the same key (the index keeps one ID per key, the
\* one merged last).
C1_ReachableUnlessKeyShared ==
  Quiescent =>
    /\ \A id \in DOMAIN users : \A ik \in UserKeys(users[id]) :
         /\ Has(Deref(ik[1]), ik[2])
         /\ (\A r \in everMerged.users : ik \in UserKeys(r) => r.ID = id)
              => Deref(ik[1])[ik[2]] = id
    /\ \A id \in DOMAIN channels :
         /\ Has(channelsInv, channels[id].Name)
         /\ (\A c \in everMerged.channels :
               c.Name = channels[id].Name => c.ID = id)
              => channelsInv[channels[id].Name] = id

\* two users that share a normalized display name, and a conversation, cached
C1_Witness ==
  /\ Quiescent
  /\ Cardinality(DOMAIN users) = 2
  /\ \E a, b \in DOMAIN users :
       /\ a # b
       /\ users[a].DisplayName # << >>
       /\ normalizeString(users[a].DisplayName)
            = normalizeString(users[b].DisplayName)
       /\ users[a].Email # << >>
       /\ usersEmailInv[users[a].Email] = a
  /\ channels # EmptyMap

\* C2: at every moment, also inside a merge and beside a concurrent refresh or
\* lookup, every value stored in an inverse index is a key of the canonical
\* map of its kind.
C2_IndexValuesAreCached ==
  /\ \A ix \in UserIndices : \A k \in DOMAIN Deref(ix) :
       Deref(ix)[k] \in DOMAIN users
  /\ \A k \in DOMAIN channelsInv : channelsInv[k] \in DOMAIN channels

\* C3: every inverse index is the index rebuilt from the canonical map: each
\* entry key -> ID is a key that the record now stored for ID has; no entry of
\* an old name remains.
C3_IndexRebuiltFromCanonical ==
  Quiescent =>
    /\ \A ix \in UserIndices : \A k \in DOMAIN Deref(ix) :
         /\ Deref(ix)[k] \in DOMAIN users
         /\ <<ix, k>> \in UserKeys(users[Deref(ix)[k]])
    /\ \A k \in DOMAIN channelsInv :
         /\ channelsInv[k] \in DOMAIN channels
         /\ channels[channelsInv[k]].Name = k

\* C4: after any sequence of RefreshUsers and RefreshChannels calls every
\* cached direct message has the name and purpose that the deriver yields for
\* it against the user directory as it is now.
C4_DirectMessagesCurrent ==
  Quiescent =>
    \A id \in DOMAIN channels :
      channels[id].IsIM =>
        /\ channels[id].Name = Reloaded(channels[id], users).Name
        /\ channels[id].Purpose = Reloaded(channels[id], users).Purpose

\* C5: a RefreshChannels whose live refresh had a page request fail returns
\* a non-nil error.
C5_PageFailureSurfaced ==
  \A t \in Threads :
    (pc[t] = "returned" /\ loc[t].op = "RefreshChannels" /\ loc[t].pageErr)
      => loc[t].err # Nil

\* the last element of s with the same value of field f as s[j]
LastLike(s, j, f) ==
  s[CHOOSE k \in DOMAIN s :
      /\ s[k][f] = s[j][f]
      /\ \A m \in DOMAIN s : s[m][f] = s[j][f] => m <= k]

\* C6: once a page request has failed, or the wait for the permit was
\* cancelled, the refresh is out of the page loop for good (one page request
\* more than permits were acquired, none further), and every conversation
\* merged from the earlier pages is in the canonical map and in the by-name
\* index as it was merged.
C6_PartialResultKept ==
  \A t \in Threads :
    (loc[t].pageErr \/ loc[t].cancelled) =>
      /\ pc[t] \in {"gc_result", "rc_write", "returned"}
      /\ loc[t].reqs = loc[t].permits + 1
      /\ LET done == SubSeq(loc[t].chans, 1, loc[t].merged)
         IN \A j \in DOMAIN done :
              /\ Has(channels, done[j].ID)
              /\ channels[done[j].ID] = LastLike(done, j, "ID")
              /\ Has(channelsInv, done[j].Name)
              /\ channelsInv[done[j].Name] = LastLike(done, j, "Name").ID

\* the second page request failed after a first page was merged
C6_Witness ==
  \E t \in Threads :
    /\ pc[t] = "returned" /\ loc[t].pageErr
    /\ loc[t].reqs = 2 /\ loc[t].merged >= 1

\* t is inside the map-update step of the user maps
UpdatingUsers(t) ==
  pc[t] \in {"ru_load", "ru_merge"} /\ loc[t].i <= Len(loc[t].list)

\* t is reading the user maps
ReadingUsers(t) == pc[t] = "ur_scan"

\* C7: the map-update step of a merge is a critical section: never two
\* writers inside it, never a reader of the maps beside a writer.
C7_MergeIsCriticalSection ==
  \A t, o \in Threads :
    t # o => ~(UpdatingUsers(t) /\ (UpdatingUsers(o) \/ ReadingUsers(o)))

\* C8: the maps handed out by ProvideUsersMap are a consistent copy: what a
\* handler scanning its view sees is what the map held when the view was
\* obtained, whatever has been merged since.
C8_ViewIsACopy ==
  \A t \in Threads :
    pc[t] = "ur_scan" => Deref(loc[t].view.Users) = loc[t].viewAt

\* C9: whatever the callers of ProvideGeneric, the identity round trip is
\* performed once and the identity is recorded once.
C9_BootExactlyOnce == authTests <= 1 /\ identitySets <= 1

\* a call of ProvideGeneric by t has just returned
ProvideGenericReturned(t) ==
  \/ pc[t] = "returned" /\ loc[t].op = "ProvideGeneric"
  \/ pc[t] \in {"ru_fetch", "gc_enterprise"}

\* C10: over calls of ProvideGeneric that do not overlap, the identity round
\* trip is performed once, by the first call, and every call returns the one
\* client that the first call constructed.
C10_SameClientNoReauthentication ==
  /\ authTests <= 1
  /\ \A t \in Threads :
       ProvideGenericReturned(t) =>
         /\ authTests = 1 /\ clientsMade = 1
         /\ loc[t].client # NoClient
         /\ loc[t].client = clientGeneric

\* a second call has returned the client without a round trip of its own
C10_Witness ==
  \E t \in Threads :
    /\ pc[t] = "returned" /\ loc[t].op = "ProvideGeneric"
    /\ calls = 2 /\ loc[t].resp = NoIdentity
    /\ loc[t].client # NoClient

\* both session slots are filled
SessionPair == env.xoxc # << >> /\ env.xoxd # << >>

\* New has been called and auth.NewValueAuth did not refuse the credential
NewAccepted == provider.state # "none" /\ provider.panic # "auth"

\* New returned a provider of this mode with this IsBotToken
Built(mode, bot) ==
  provider.state = "built" /\ provider.mode = mode /\ IsBotToken = bot

\* a value that New takes for a user token: not empty, not bot-shaped and
\* not session-shaped
UserShaped(v) ==
  v # << >> /\ ~HasPrefix(v, "xoxb-") /\ ~HasPrefix(v, "xoxc-")

\* C11 as stated (for credentials that auth.NewValueAuth accepts): a full
\* session pair gives the session-cookie provider; otherwise a non-empty
\* user-shaped user-token slot gives the user-token provider; otherwise a
\* non-empty bot-token slot gives the bot provider; IsBotToken is true in the
\* third mode only.
C11_FixedPriority ==
  NewAccepted =>
    /\ SessionPair => Built("xoxc", FALSE)
    /\ (~SessionPair /\ UserShaped(env.xoxp)) => Built("xoxp", FALSE)
    /\ (~SessionPair /\ ~UserShaped(env.xoxp) /\ env.xoxb # << >>)
         => Built("xoxb", TRUE)

\* C11 as amended (for credentials that auth.NewValueAuth accepts): a full
\* session pair gives the session-cookie provider whatever the other slots
\* hold; otherwise a non-empty user-token slot decides alone, whatever the
\* bot-token slot holds: the user-token provider unless its value is bot-shaped
\* (bot provider) or session-shaped (New fails); the bot-token slot is used
\* only when the user-token slot is empty.  IsBotToken is true exactly for the
\* bot provider.
C11_PriorityUserSlotDecides ==
  NewAccepted =>
    /\ SessionPair => Built("xoxc", FALSE)
    /\ (~SessionPair /\ UserShaped(env.xoxp)) => Built("xoxp", FALSE)
    /\ (~SessionPair /\ HasPrefix(env.xoxp, "xoxb-")) => Built("xoxb", TRUE)
    /\ (~SessionPair /\ HasPrefix(env.xoxp, "xoxc-"))
         => provider.state = "panicked"
    /\ (~SessionPair /\ env.xoxp = << >> /\ env.xoxb # << >>)
         => Built("xoxb", TRUE)
    /\ provider.state = "built" => (IsBotToken <=> provider.mode = "xoxb")

\* the user-token provider was built although the bot-token slot is filled
C11_Witness ==
  /\ Built("xoxp", FALSE) /\ ~SessionPair
  /\ HasPrefix(env.xoxp, "xoxp-") /\ HasPrefix(env.xoxb, "xoxb-")

\* C12: with the session pair incomplete and a session-shaped (xoxc-) value
\* in the user-token slot, New fails with a configuration error and returns
\* no provider, whatever the bot-token slot holds.
C12_SessionTokenInUserSlotRejected ==
  (provider.state # "none" /\ ~SessionPair /\ HasPrefix(env.xoxp, "xoxc-"))
    => /\ provider.state = "panicked"
       /\ provider.panic = "session token in SLACK_MCP_XOXP_TOKEN"
       /\ halted

\* New has failed on a session token in the user slot beside a bot token
C12_Witness ==
  /\ provider.state = "panicked" /\ ~SessionPair
  /\ HasPrefix(env.xoxp, "xoxc-") /\ HasPrefix(env.xoxb, "xoxb-")

\* C13: with the session pair incomplete and a bot-shaped (xoxb-) value in the
\* user-token slot that auth.NewValueAuth accepts, New returns a provider
\* whose IsBotToken is true: the provider it returns for the same value in
\* the bot-token slot and an empty user-token slot.
C13_BotTokenInUserSlotDowngraded ==
  (NewAccepted /\ ~SessionPair /\ HasPrefix(env.xoxp, "xoxb-"))
    => /\ provider.state = "built" /\ IsBotToken
       /\ provider.auth = ValueAuth(env.xoxp, << >>)
       /\ provider = New([env EXCEPT !.xoxp = << >>, !.xoxb = env.xoxp], FALSE)

\* a provider was built from a bot token in the user slot, the bot slot empty
C13_Witness ==
  /\ provider.state = "built" /\ ~SessionPair
  /\ HasPrefix(env.xoxp, "xoxb-") /\ env.xoxb = << >>

\* C14: the wrong-slot values other than a bot token in the user-token slot
\* make New fail: a session-shaped value in the user-token slot and a
\* user-shaped (xoxp-) value in the bot-token slot, when New comes to them.
C14_OtherWrongSlotsRejected ==
  provider.state # "none" =>
    /\ (~SessionPair /\ HasPrefix(env.xoxp, "xoxc-"))
         => provider.state = "panicked"
    /\ (~SessionPair /\ env.xoxp = << >> /\ HasPrefix(env.xoxb, "xoxp-"))
         => provider.state = "panicked"

\* C15: with no complete credential New fails and returns no provider, and
\* whenever New fails no identity round trip and no request has been made
\* (none is made before New has returned).
C15_NoCredentialFatalBeforeNetwork ==
  /\ (provider.state # "none" /\ ~SessionPair /\ env.xoxp = << >>
        /\ env.xoxb = << >>)
       => (provider.state = "panicked" /\ halted)
  /\ provider.state # "built" =>
       /\ authTests = 0 /\ clientsMade = 0 /\ edgeClientsMade = 0
       /\ clientGeneric = NoClient /\ authResponse = NoIdentity
       /\ \A t \in Threads : pc[t] = "idle" /\ loc[t].reqs = 0

\* New has failed for want of a credential, half a session pair being there
C15_Witness ==
  /\ provider.state = "panicked" /\ halted
  /\ env.xoxc # << >> /\ env.xoxd = << >>
  /\ env.xoxp = << >> /\ env.xoxb = << >>

\* the ID that a merge of the list us leaves under the index entry ik: that
\* of the last record of us that has the entry
LastOwner(us, ik) ==
  us[CHOOSE k \in DOMAIN us :
       /\ ik \in UserKeys(us[k])
       /\ \A m \in DOMAIN us : ik \in UserKeys(us[m]) => m <= k].ID

\* every record of the list us is merged: in the canonical map under its ID,
\* and each of its index entries present with the ID merged last under it
UsersMerged(us) ==
  \A j \in DOMAIN us :
    /\ Has(users, us[j].ID)
    /\ users[us[j].ID] = LastLike(us, j, "ID")
    /\ \A ik \in UserKeys(us[j]) :
         Has(Deref(ik[1]), ik[2]) /\ Deref(ik[1])[ik[2]] = LastOwner(us, ik)

\* C16: a RefreshUsers that finds a user snapshot that parses makes no
\* identity round trip, boots no client and issues no request, merges every
\* record of the snapshot into the user map and the indices, and returns nil.
C16_SnapshotHitStaysLocal ==
  \A t \in Threads :
    (loc[t].op = "RefreshUsers" /\ loc[t].snap = "json") =>
      /\ authTests = loc[t].auth0 /\ loc[t].reqs = 0
      /\ loc[t].client = NoClient
      /\ pc[t] \in {"ru_load", "returned"}
      /\ pc[t] = "returned" => (loc[t].err = Nil /\ UsersMerged(loc[t].list))

\* a snapshot of two users was loaded by a process that never booted a client
C16_Witness ==
  \E t \in Threads :
    /\ pc[t] = "returned" /\ loc[t].op = "RefreshUsers"
    /\ loc[t].snap = "json" /\ Len(loc[t].list) = 2
    /\ clientGeneric = NoClient /\ Cardinality(DOMAIN users) = 2

\* reading a snapshot file that does not parse
BadSnapshotRead(t) ==
  \/ pc[t] = "ru_read" /\ usersFile.kind = "garbage"
  \/ pc[t] = "rc_read" /\ channelsFile.kind = "garbage"

\* C17: a snapshot that is readable and does not parse never fails the
\* refresh: reading it changes no cache map and leads on to the live fetch,
\* and the refresh returns what the live fetch alone gives (RefreshUsers: nil
\* exactly when the user fetch succeeded; RefreshChannels: nil).
C17_BadSnapshotFallsThrough ==
  /\ [](\A t \in Threads :
          (pc[t] = "returned" /\ loc[t].snap = "garbage") =>
            /\ loc[t].reqs >= 1
            /\ loc[t].op = "RefreshUsers" =>
                 (loc[t].err = Nil <=> loc[t].wrote # "no")
            /\ loc[t].op = "RefreshChannels" => loc[t].err = Nil)
  /\ [][\A t \in Threads :
          (BadSnapshotRead(t) /\ pc'[t] # pc[t]) =>
            (pc'[t] = "pg_check" /\ UNCHANGED cacheVars)]_vars

\* a refresh that met an unparsable user snapshot has fetched and merged
C17_Witness ==
  \E t \in Threads :
    /\ pc[t] = "returned" /\ loc[t].op = "RefreshUsers"
    /\ loc[t].snap = "garbage" /\ loc[t].err = Nil
    /\ users # EmptyMap

\* C18: when the snapshot write fails after a successful live fetch, the
\* refresh still returns nil, and everything fetched is merged: the users of
\* the fetched list (RefreshUsers), the conversations of every page
\* (RefreshChannels, the enumeration neither failed nor cancelled).
C18_WriteFailureNotFatal ==
  \A t \in Threads :
    (pc[t] = "returned" /\ loc[t].wrote = "failed") =>
      /\ loc[t].err = Nil
      /\ loc[t].op = "RefreshUsers" => UsersMerged(loc[t].list)
      /\ (loc[t].op = "RefreshChannels" /\ ~loc[t].pageErr /\ ~loc[t].cancelled)
           => /\ loc[t].merged = Len(loc[t].chans)
              /\ \A j \in DOMAIN loc[t].chans :
                   /\ Has(channels, loc[t].chans[j].ID)
                   /\ channels[loc[t].chans[j].ID]
                        = LastLike(loc[t].chans, j, "ID")
                   /\ Has(channelsInv, loc[t].chans[j].Name)
                   /\ channelsInv[loc[t].chans[j].Name]
                        = LastLike(loc[t].chans, j, "Name").ID

\* two users were fetched and merged and the snapshot write failed
C18_Witness ==
  \E t \in Threads :
    /\ pc[t] = "returned" /\ loc[t].op = "RefreshUsers"
    /\ loc[t].wrote = "failed" /\ Len(loc[t].list) = 2
    /\ usersFile.kind # "json"

\* C19: after a live user fetch whose snapshot write succeeded, the snapshot
\* holds a record for every user ID of the canonical user map.
C19_SnapshotHoldsFullDirectory ==
  \A t \in Threads :
    (pc[t] = "returned" /\ loc[t].op = "RefreshUsers"
       /\ loc[t].wrote = "written") =>
      /\ usersFile.kind = "json"
      /\ \A id \in DOMAIN users :
           \E j \in DOMAIN usersFile.data : ParseJSONString(usersFile.data[j].id) = id

\* C20: a RefreshChannels whose enumeration met a failed page request or a
\* cancelled permit wait writes no conversation snapshot.
C20_NoSnapshotAfterAbort ==
  \A t \in Threads :
    (loc[t].op = "RefreshChannels" /\ (loc[t].pageErr \/ loc[t].cancelled))
      => loc[t].wrote # "written"


\* C21: in a conversation enumeration every page request, the first one
\* included, is issued after a permit acquired for it: at no moment have more
\* page requests been issued than permits acquired.
C21_PermitBeforeEveryPage ==
  \A t \in Threads :
    loc[t].op \in {"RefreshChannels", "GetChannels"}
      => loc[t].reqs <= loc[t].permits

\* t runs a conversation enumeration: GetChannels, called directly or by a
\* RefreshChannels that found no snapshot to load
Enumerating(t) == loc[t].op \in {"RefreshChannels", "GetChannels"}

\* the page loop of t is over
LoopLeft(t) == pc[t] \in {"gc_result", "rc_write", "returned"}

\* t issues a page request in this step
PageRequested(t) == Enumerating(t) /\ loc'[t].reqs = loc[t].reqs + 1

C23_CancelledWaitStopsPaging ==
  /\ [](\A t \in Threads :
          loc[t].cancelled =>
            /\ pc[t] \in {"rc_write", "returned"}
            /\ loc[t].reqs = loc[t].permits + 1)
  /\ [][\A t \in Threads : loc[t].cancelled => ~PageRequested(t)]_vars
  /\ \A t \in Threads : loc[t].cancelled ~> pc[t] = "returned"

\* a refresh has returned after a cancelled wait, a next page being announced
C23_Witness ==
  \E t \in Threads :
    /\ pc[t] = "returned" /\ loc[t].op = "RefreshChannels"
    /\ loc[t].cancelled /\ loc[t].nextcur # << >> /\ loc[t].reqs = 1

\* C24: the page requests of an enumeration use the enterprise protocol
\* exactly when the recorded identity has a non-empty enterprise-grid ID;
\* a request of the standard protocol carries the filter of all four types
\* with archived conversations excluded, whatever types the caller of
\* GetChannels asked for.
C24_ProtocolByIdentity ==
  \A t \in Threads :
    loc[t].sent.proto # "none" =>
      /\ authResponse.set
      /\ loc[t].sent.proto = "enterprise" <=> authResponse.EnterpriseID # << >>
      /\ loc[t].sent.proto = "standard" =>
           /\ loc[t].sent.Types = <<"mpim", "im", "public_channel", "private_channel">>
           /\ loc[t].sent.ExcludeArchived

\* a caller asked for direct messages only; the standard request listed a
\* conversation of another type, which was merged
C24_Witness ==
  \E t \in Threads :
    /\ pc[t] = "returned" /\ loc[t].op = "GetChannels"
    /\ loc[t].types = <<"im">> /\ loc[t].sent.proto = "standard"
    /\ \E j \in DOMAIN loc[t].chans :
         ~loc[t].chans[j].IsIM /\ Has(channels, loc[t].chans[j].ID)

\* the IDs of the records of a list
IDsOf(cs) == {cs[k].ID : k \in DOMAIN cs}

\* C25: under the enterprise protocol a conversation that a response of this
\* refresh reported as archived is not in the canonical conversation map, not
\* a value of the by-name index, not in the list that is returned and not in
\* the snapshot.  (The remote does not change the archive flag of a
\* conversation in this model: no earlier refresh has cached it.)
C25_ArchivedLeftOut ==
  \A t \in Threads :
    (Enumerating(t) /\ loc[t].sent.proto = "enterprise") =>
      \A id \in loc[t].archived :
        /\ id \notin DOMAIN channels
        /\ \A k \in DOMAIN channelsInv : channelsInv[k] # id
        /\ id \notin IDsOf(loc[t].chans)
        /\ id \notin IDsOf(loc[t].res)
        /\ channelsFile.kind = "json" => id \notin IDsOf(channelsFile.data)

\* an enterprise refresh whose response listed an archived conversation has
\* written its snapshot
C25_Witness ==
  \E t \in Threads :
    /\ pc[t] = "returned" /\ loc[t].op = "RefreshChannels"
    /\ loc[t].sent.proto = "enterprise" /\ loc[t].archived # {}
    /\ loc[t].wrote = "written" /\ ~loc[t].cancelled

\* t is a RefreshChannels that found a conversation snapshot that parses
LoadingSnapshot(t) == loc[t].op = "RefreshChannels" /\ loc[t].snap = "json"

\* C26: a RefreshChannels that loads a conversation snapshot issues no
\* request and boots no client, and when it has returned every direct
\* message of the snapshot is cached with the name and purpose derived from
\* its stored peer ID against the user directory as it is at the load: '@' +
\* username and 'DM with ' + real name when the directory holds the peer,
\* whatever name the snapshot stored, '@' + ID and 'DM with ' + ID when it
\* does not.
C26_DirectMessagesRederived ==
  \A t \in Threads :
    LoadingSnapshot(t) =>
      /\ authTests = loc[t].auth0 /\ loc[t].client = NoClient
      /\ loc[t].reqs = 0 /\ loc[t].sent.proto = "none"
      /\ pc[t] \in {"rc_load", "returned"}
      /\ pc[t] = "returned" =>
           \A j \in DOMAIN loc[t].list :
             LET c == LastLike(loc[t].list, j, "ID")
             IN (c.IsIM /\ c.User # << >>) =>
                  /\ Has(channels, c.ID)
                  /\ Has(channelsInv, channels[c.ID].Name)
                  /\ channels[c.ID].User = c.User
                  /\ IF Has(users, c.User)
                     THEN /\ channels[c.ID].Name = <<"@">> \o users[c.User].Name
                          /\ channels[c.ID].Purpose
                               = <<"DM with ">> \o users[c.User].RealName
                     ELSE /\ channels[c.ID].Name = <<"@">> \o c.User
                          /\ channels[c.ID].Purpose = <<"DM with ">> \o c.User

\* a snapshot that stored '@' + ID for a direct message was loaded after the
\* directory had gained the peer: the cached name and purpose are the peer's
C26_Witness ==
  \E t \in Threads :
    /\ pc[t] = "returned" /\ LoadingSnapshot(t)
    /\ \E j \in DOMAIN loc[t].list :
         LET c == loc[t].list[j]
         IN /\ c.IsIM /\ c.Name = <<"@">> \o c.User
            /\ Has(users, c.User) /\ users[c.User].RealName # << >>
            /\ channels[c.ID].Name = <<"@">> \o users[c.User].Name
            /\ channels[c.ID].Name # c.Name
            /\ channels[c.ID].Purpose # c.Purpose

\* C27: when a RefreshChannels that loads a conversation snapshot has
\* returned, every record of the snapshot that is not a direct message
\* (standard channel or group direct message) is the cached entry of its ID,
\* field for field, and the by-name index has its ID under its stored name.
C27_OthersLoadedVerbatim ==
  \A t \in Threads :
    (LoadingSnapshot(t) /\ pc[t] = "returned") =>
      \A j \in DOMAIN loc[t].list :
        LET c == LastLike(loc[t].list, j, "ID")
        IN ~c.IsIM =>
             /\ Has(channels, c.ID) /\ channels[c.ID] = c
             /\ Has(channelsInv, c.Name) /\ channelsInv[c.Name] = c.ID

\* a group direct message and a channel were loaded as stored although the
\* directory now knows the members of the group
C27_Witness ==
  \E t \in Threads :
    /\ pc[t] = "returned" /\ LoadingSnapshot(t)
    /\ \E j, k \in DOMAIN loc[t].list :
         LET g == loc[t].list[j]
             c == loc[t].list[k]
         IN /\ g.IsMpIM /\ ~g.IsIM /\ Len(g.Members) = 2
            /\ \A m \in Range(g.Members) : Has(users, m)
            /\ channels[g.ID].Purpose = g.Purpose
            /\ ~c.IsMpIM /\ ~c.IsIM /\ channels[c.ID] = c

\* mapChannel has returned: its arguments and its result
Mapped == pc["T1"] \in {"mapped", "mapped_again"}
MapIn == loc["T1"].list[1]
MapOut == loc["T1"].chans[1]

\* the members of the list that the directory holds, by position
KnownAt(members) == {k \in DOMAIN members : Has(users, members[k])}

\* C28: for a direct message the stored peer ID is the explicit peer field
\* when that is non-empty, in the directory or not, members listed or not;
\* when it is empty, the first ID of the member list, in list order, that
\* the directory holds; and empty when the directory holds none of them.
C28_PeerResolution ==
  (Mapped /\ MapIn.IsIM) =>
    /\ MapIn.User # << >> => MapOut.User = MapIn.User
    /\ (MapIn.User = << >> /\ KnownAt(MapIn.Members) # {}) =>
         \E k \in KnownAt(MapIn.Members) :
           /\ MapOut.User = MapIn.Members[k]
           /\ \A m \in KnownAt(MapIn.Members) : k <= m
    /\ (MapIn.User = << >> /\ KnownAt(MapIn.Members) = {}) => MapOut.User = << >>

\* an explicit peer that the directory lacks was kept although a listed
\* member is in the directory
C28_Witness ==
  /\ Mapped /\ MapIn.IsIM
  /\ MapIn.User # << >> /\ ~Has(users, MapIn.User)
  /\ KnownAt(MapIn.Members) # {}
  /\ MapOut.User = MapIn.User

\* C29: for a direct message with resolved peer p the name and purpose are
\* '@' + username and 'DM with ' + real name when the directory holds p,
\* '@' + p and 'DM with ' + p when it does not and p is not empty, '@' and
\* 'DM with ' when p is empty; the member count is 2 and the topic is empty
\* whatever count, topic and purpose were supplied.
C29_DirectMessageDerivation ==
  (Mapped /\ MapIn.IsIM) =>
    LET p == MapOut.User
    IN /\ Has(users, p) =>
            /\ MapOut.Name = <<"@">> \o users[p].Name
            /\ MapOut.Purpose = <<"DM with ">> \o users[p].RealName
       /\ (~Has(users, p) /\ p # << >>) =>
            /\ MapOut.Name = <<"@">> \o p
            /\ MapOut.Purpose = <<"DM with ">> \o p
       /\ p = << >> =>
            /\ MapOut.Name = <<"@">>
            /\ MapOut.Purpose = <<"DM with ">>
       /\ MapOut.MemberCount = 2
       /\ MapOut.Topic = << >>

\* a direct message supplied with a count of 5, a topic and a purpose was
\* derived against a directory that holds its peer
C29_Witness ==
  /\ Mapped /\ MapIn.IsIM /\ Has(users, MapOut.User)
  /\ MapIn.NumMembers = 5 /\ MapIn.Topic # << >> /\ MapIn.Purpose # << >>
  /\ MapOut.MemberCount = 2 /\ MapOut.Topic = << >>

\* how the purpose of a group direct message writes the member m
ShownAs(m) == IF Has(users, m) THEN users[m].RealName ELSE m

\* C30: for a group direct message with a non-empty member list the member
\* count is the length of the list, the name is '@' + normalized name, the
\* topic is empty and the purpose is 'Group DM with ' followed by the
\* members in list order, joined by ', ', each as its real name when the
\* directory holds its ID and as the ID when not.
C30_GroupDerivation ==
  (Mapped /\ ~MapIn.IsIM /\ MapIn.IsMpIM /\ Len(MapIn.Members) > 0) =>
    /\ MapOut.MemberCount = Len(MapIn.Members)
    /\ MapOut.Name = <<"@">> \o MapIn.NameNormalized
    /\ MapOut.Topic = << >>
    /\ Len(MapIn.Members) = 1 =>
         MapOut.Purpose = <<"Group DM with ">> \o ShownAs(MapIn.Members[1])
    /\ Len(MapIn.Members) = 2 =>
         MapOut.Purpose = <<"Group DM with ">> \o ShownAs(MapIn.Members[1])
                            \o <<", ">> \o ShownAs(MapIn.Members[2])
    /\ Len(MapIn.Members) <= 2

\* a group of two, one member in the directory and one not
C30_Witness ==
  /\ Mapped /\ ~MapIn.IsIM /\ MapIn.IsMpIM /\ Len(MapIn.Members) = 2
  /\ ~Has(users, MapIn.Members[1]) /\ Has(users, MapIn.Members[2])
  /\ MapIn.NumMembers # 2 /\ MapIn.Topic # << >>
  /\ MapOut.Purpose = <<"Group DM with ", "U9", ", ", "Bob B">>

\* C31: for a group direct message with an empty member list mapChannel
\* returns a Channel (it has no error result) whose name, topic, purpose and
\* member count are those supplied: no '@' is put before the name, no
\* purpose is made up.
C31_EmptyGroupLeftAsIs ==
  (Mapped /\ ~MapIn.IsIM /\ MapIn.IsMpIM /\ Len(MapIn.Members) = 0) =>
    /\ MapOut.Name = MapIn.Name
    /\ MapOut.Topic = MapIn.Topic
    /\ MapOut.Purpose = MapIn.Purpose
    /\ MapOut.MemberCount = MapIn.NumMembers
    /\ MapOut.ID = MapIn.ID /\ MapOut.IsMpIM /\ MapOut.Members = << >>

\* a group without members, supplied with a topic, a purpose and a count
C31_Witness ==
  /\ Mapped /\ ~MapIn.IsIM /\ MapIn.IsMpIM /\ Len(MapIn.Members) = 0
  /\ MapIn.Topic # << >> /\ MapIn.Purpose # << >> /\ MapIn.NumMembers = 5
  /\ MapOut.Name = <<"Grp">> /\ MapOut.MemberCount = 5

\* C32: for a conversation that is neither a direct message nor a group
\* direct message, private or not, the name is '#' + normalized name, the
\* topic, the purpose and the member count are those supplied, and the stored
\* peer ID is empty.
C32_ChannelDerivation ==
  (Mapped /\ ~MapIn.IsIM /\ ~MapIn.IsMpIM) =>
    /\ MapOut.Name = <<"#">> \o MapIn.NameNormalized
    /\ MapOut.Topic = MapIn.Topic
    /\ MapOut.Purpose = MapIn.Purpose
    /\ MapOut.MemberCount = MapIn.NumMembers
    /\ MapOut.User = << >>
    /\ MapOut.IsPrivate = MapIn.IsPrivate

\* a private channel supplied with a peer field, members, a topic and a purpose
C32_Witness ==
  /\ Mapped /\ ~MapIn.IsIM /\ ~MapIn.IsMpIM /\ MapIn.IsPrivate
  /\ MapIn.User # << >> /\ Len(MapIn.Members) = 2
  /\ MapIn.Topic # << >> /\ MapIn.Purpose # << >> /\ MapIn.NumMembers = 5
  /\ MapOut.Name = <<"#", "grp">> /\ MapOut.User = << >>

\* what mapChannel yields for the record c against the directory usersMap
Derived(c, usersMap) ==
  mapChannel(c.ID, c.Name, c.NameNormalized, c.Topic, c.Purpose, c.User,
             c.Members, c.NumMembers, c.IsIM, c.IsMpIM, c.IsPrivate, usersMap)

StoringUser(t, u) ==
  /\ pc[t] \in {"ru_load", "ru_merge"} /\ loc[t].i <= Len(loc[t].list)
  /\ loc[t].stmt = 1 /\ loc[t].list[loc[t].i] = u

\* thread t is at a statement that stores a conversation of ID id
StoringChannel(t, id) ==
  \/ /\ pc[t] = "gc_merge" /\ loc[t].i <= Len(loc[t].chans)
     /\ loc[t].stmt = 1 /\ loc[t].chans[loc[t].i].ID = id
  \/ /\ pc[t] = "rc_load" /\ loc[t].i <= Len(loc[t].list)
     /\ loc[t].stmt = 1 /\ loc[t].list[loc[t].i].ID = id

\* C34: no step of RefreshUsers, RefreshChannels, GetChannels or a lookup
\* removes a key from the canonical user map or the canonical conversation
\* map, and the record under a key changes only in a step of a merge that
\* stores a record of that ID.
C34_CacheOnlyGrows ==
  [][/\ DOMAIN users \subseteq DOMAIN users'
     /\ DOMAIN channels \subseteq DOMAIN channels'
     /\ \A id \in DOMAIN users :
          users'[id] # users[id] =>
            \E t \in Threads : StoringUser(t, users'[id]) /\ users'[id].ID = id
     /\ \A id \in DOMAIN channels :
          channels'[id] # channels[id] =>
            \E t \in Threads : StoringChannel(t, id) /\ channels'[id].ID = id]_vars

\* two users are cached after two refreshes, and the record of one of them
\* has been overwritten by a later record of the same ID
C34_Witness ==
  /\ Quiescent /\ Cardinality(DOMAIN users) = 2
  /\ \E a, b \in everMerged.users :
       a # b /\ a.ID = b.ID /\ users[a.ID] = a

\* t is a lookup: the resolve handler over ProvideUsersMap, or a call of
\* ProvideChannelsMaps
LookingUp(t) == loc[t].op \in {"UsersResolve", "ProvideChannelsMaps"}

\* C35: a lookup boots no client, issues no request and reads no snapshot,
\* and no step of it changes a cache map, a client or a file; what it hands
\* out are the maps of the cache as they are, empty when the cache was never
\* populated, and the handler then scans nothing and returns.
C35_LookupsOnlyRead ==
  /\ [](\A t \in Threads :
          LookingUp(t) =>
            /\ pc[t] \in {"ur_view", "ur_scan", "cm_view", "returned"}
            /\ loc[t].reqs = 0 /\ loc[t].snap = Nil
            /\ loc[t].client = NoClient /\ loc[t].sent.proto = "none"
            /\ loc[t].view.Users # Nil =>
                 /\ Deref(loc[t].view.Users) = users
                 /\ loc[t].visited \subseteq DOMAIN users
            /\ loc[t].cview.Channels # Nil =>
                 Deref(loc[t].cview.Channels) = channels
            /\ (pc[t] = "returned" /\ loc[t].op = "UsersResolve") =>
                 (loc[t].err = Nil /\ loc[t].visited = DOMAIN users))
  /\ [][\A t \in Threads :
          (LookingUp(t) \/ LookingUp(t)') =>
            UNCHANGED <<cacheVars, clientVars, diskVars, everMerged>>]_vars

\* the handler has returned from a cache that was never populated, although
\* a user snapshot was there to be read
C35_Witness ==
  \E t \in Threads :
    /\ pc[t] = "returned" /\ loc[t].op = "UsersResolve"
    /\ users = EmptyMap /\ loc[t].visited = {}
    /\ clientGeneric = NoClient /\ authTests = 0
    /\ usersFile.kind = "json" /\ calls = 2


\* the user cache holds what merging the list us into empty maps leaves: the
\* records of us under their IDs, their index entries, and nothing else
FreshlyMerged(us) ==
  /\ UsersMerged(us)
  /\ DOMAIN users = {us[j].ID : j \in DOMAIN us}
  /\ \A ix \in UserIndices :
       DOMAIN Deref(ix)
         = {ik[2] : ik \in {k \in UNION {UserKeys(us[j]) : j \in DOMAIN us} :
                              k[1] = ix}}

\* C36: a fresh provider whose live user fetch succeeded and wrote the
\* snapshot holds exactly the merge of the fetched list, and the snapshot is
\* the encoding of that list; a fresh provider that loads a snapshot holds
\* exactly the merge of the list the snapshot encodes: the same user map and
\* the same four indices, display and real names normalized alike.
C36_UserSnapshotRoundTrip ==
  \A t \in Threads :
    (pc[t] = "returned" /\ loc[t].op = "RefreshUsers" /\ calls = 1
       /\ loc[t].err = Nil) =>
      /\ (loc[t].snap # "json" /\ loc[t].wrote = "written") =>
           /\ usersFile = Snapshot(MarshalUsers(loc[t].list))
           /\ FreshlyMerged(loc[t].list)
      /\ loc[t].snap = "json" =>
           /\ \E us \in UserLists : MarshalUsers(us) = usersFile.data
           /\ \A us \in UserLists :
                MarshalUsers(us) = usersFile.data => FreshlyMerged(us)

\* a fresh provider loaded the snapshot of two users whose display names
\* differ by a zero-width character only
C36_Witness ==
  \E t \in Threads :
    /\ pc[t] = "returned" /\ loc[t].op = "RefreshUsers" /\ calls = 1
    /\ loc[t].snap = "json" /\ Cardinality(DOMAIN users) = 2
    /\ Has(usersDisplayNameInv, <<"Al">>)
    /\ usersDisplayNameInv[<<"Al">>] = U2
    /\ \E j \in DOMAIN usersFile.data :
         usersFile.data[j].profile.display_name = <<"Al", "U+200B">>


\* the number of places of the string s at which the string text begins
Occurrences(s, text) ==
  Cardinality({i \in 1..Len(s) :
                 i + Len(text) - 1 <= Len(s)
                 /\ SubSeq(s, i, i + Len(text) - 1) = text})

Extracted == pc["T1"] = "extracted"

\* C37 as stated: when the text of a message is not empty and is the text of
\* one of its blocks, the extracted text holds it exactly once, whatever
\* else the message carries.
C37_BlockTextOnce ==
  Extracted =>
    LET msg == loc["T1"].list[1]
    IN (msg.Text # << >>
          /\ \E i \in DOMAIN msg.Blocks :
               msg.Blocks[i].HasText /\ msg.Blocks[i].Text = msg.Text)
         => Occurrences(loc["T1"].res, msg.Text) = 1


\* C38 as stated: a ProvideEnterprise call ends without a fault, also on a
\* provider whose identity no ProvideGeneric call has recorded, and a call
\* that finds an enterprise handle leaves it in place.
C38_EnterpriseHandleIndependent ==
  /\ [](\A t \in Threads : loc[t].op = "ProvideEnterprise" => ~halted)
  /\ [][\A t \in Threads :
          (loc[t].op = "ProvideEnterprise" /\ clientEnterprise # NoClient)
            => clientEnterprise' = clientEnterprise]_vars


\* C39 as stated: the list that GetChannels returns for all four types
\* holds every conversation of the canonical map exactly once, and so does
\* the conversation snapshot written from it; the list returned for fewer
\* types holds conversations of the requested types only.
C39_EachConversationOnce ==
  \A t \in Threads :
    /\ (loc[t].op = "GetChannels" /\ pc[t] = "returned") =>
         /\ Range(loc[t].types) = Range(AllChanTypes) =>
              \A id \in DOMAIN channels :
                Cardinality({j \in DOMAIN loc[t].res :
                               loc[t].res[j].ID = id}) = 1
         /\ \A j \in DOMAIN loc[t].res :
              \E k \in DOMAIN loc[t].types :
                OfType(loc[t].res[j], loc[t].types[k])
    /\ (loc[t].op = "RefreshChannels" /\ pc[t] = "returned"
          /\ loc[t].wrote = "written") =>
         \A i, j \in DOMAIN channelsFile.data :
           channelsFile.data[i].ID = channelsFile.data[j].ID => i = j


(***************************************************************************)
(* UsersResolveHandler (package handler) with its request, checked alone.  *)
(***************************************************************************)
\* strings.ToLower, piece by piece
ToLowerRune(r) ==
  IF r = "Al" THEN "al" ELSE IF r = "Bob" THEN "bob"
  ELSE IF r = "Alice A" THEN "alice a" ELSE r
ToLower(s) == [i \in DOMAIN s |-> ToLowerRune(s[i])]

\* strings.EqualFold
EqualFold(a, b) == ToLower(a) = ToLower(b)

\* strings.Contains: the empty string is contained in every string
Contains(s, substr) ==
  \E i \in 0..Len(s) :
    i + Len(substr) <= Len(s) /\ SubSeq(s, i + 1, i + Len(substr)) = substr

\* query = strings.TrimSpace(query); a leading "@" is removed
CleanQuery(query) ==
  LET trimmed == TrimSpace(query)
  IN IF HasPrefix(trimmed, "@") THEN Tail(trimmed) ELSE trimmed

\* "<kind>_exact" when the value equals the query but for case,
\* "<kind>_partial" when it contains the lower-cased query, else no match
MatchOn(value, query, kind) ==
  IF EqualFold(value, query) THEN kind \o "_exact"
  ELSE IF Contains(ToLower(value), ToLower(query)) THEN kind \o "_partial"
  ELSE ""

\* the first of the listed match types that is one
RECURSIVE FirstMatch(_)
FirstMatch(ms) ==
  IF Len(ms) = 0 THEN "" ELSE IF ms[1] # "" THEN ms[1] ELSE FirstMatch(Tail(ms))

ValidSearchTypes == {"username", "display_name", "real_name", "email", "auto"}

\* the body of the switch for one user: the match type, "" for no match
MatchType(user, searchType, query) ==
  LET byName == MatchOn(user.Name, query, "username")
      byDisplay == IF user.DisplayName # << >>
                   THEN MatchOn(normalizeString(user.DisplayName), query,
                                "display_name")
                   ELSE ""
      byReal == IF user.RealName # << >>
                THEN MatchOn(normalizeString(user.RealName), query, "real_name")
                ELSE ""
      byEmail == IF user.Email # << >>
                 THEN MatchOn(user.Email, query, "email") ELSE ""
      exact(m, kind) == IF m = kind \o "_exact" THEN m ELSE ""
  IN CASE searchType = "username" -> byName
       [] searchType = "display_name" -> FirstMatch(<<byDisplay, byReal>>)
       [] searchType = "real_name" -> byReal
       [] searchType = "email" -> byEmail
       [] searchType = "auto" ->
            FirstMatch(<<exact(byName, "username"),
                         exact(byDisplay, "display_name"),
                         exact(byReal, "real_name"), exact(byEmail, "email"),
                         byName, byDisplay, byReal, byEmail>>)

\* the requests: the arguments "query" and "search_type"
Queries ==
  {<< >>, <<"@">>, <<" ">>, <<"@", "alice">>, <<"al">>, <<" ", "Bob", " ">>}
SearchTypes == ValidSearchTypes \cup {"id"}
Requests == [query : Queries, search_type : SearchTypes]

\* query := request.GetString("query", ""); if query == "" { return error };
\* searchType and the cleaned query are taken
UsersResolveHandler_Parse(t) ==
  /\ pc[t] = "rs_parse" /\ ~halted
  /\ IF loc[t].list[1].query = << >>
     THEN Finish(t, "query must be a non-empty string")
     ELSE Goto(t, "rs_view") /\ UNCHANGED loc
  /\ UNCHANGED <<cacheVars, clientVars, diskVars, setupVars, everMerged, calls, halted>>

\* usersMap := uh.apiProvider.ProvideUsersMap()
UsersResolveHandler_GetView(t) ==
  /\ pc[t] = "rs_view" /\ ~halted
  /\ Goto(t, "rs_scan")
  /\ loc' = [loc EXCEPT ![t].view = ProvideUsersMap, ![t].viewAt = users,
                        ![t].visited = {}, ![t].res = << >>]
  /\ UNCHANGED <<cacheVars, clientVars, diskVars, setupVars, everMerged, calls, halted>>

\* for userID, user := range usersMap.Users { switch searchType { ...
\* default: return error }; if isMatch { matches = append(matches, ...) } },
\* one user per step in any order; then the matches are returned
UsersResolveHandler_Scan(t) ==
  /\ pc[t] = "rs_scan" /\ ~halted
  /\ LET request == loc[t].list[1]
         left == (DOMAIN Deref(loc[t].view.Users)) \ loc[t].visited
     IN IF left = {}
        THEN Finish(t, Nil)
        ELSE IF request.search_type \notin ValidSearchTypes
        THEN Finish(t, "invalid search_type")
        ELSE /\ \E id \in left :
                  LET user == Deref(loc[t].view.Users)[id]
                      m == MatchType(user, request.search_type,
                                     CleanQuery(request.query))
                  IN loc' = [loc EXCEPT
                               ![t].visited = @ \cup {id},
                               ![t].res = IF m = "" THEN @
                                          ELSE Append(@, [UserID |-> id,
                                                          MatchType |-> m])]
             /\ UNCHANGED pc
  /\ UNCHANGED <<cacheVars, clientVars, diskVars, setupVars, everMerged, calls, halted>>

ResolveNext ==
  \/ UsersResolveHandler_Parse("T1")
  \/ UsersResolveHandler_GetView("T1")
  \/ UsersResolveHandler_Scan("T1")

\* the index ix as merging the list us into empty maps leaves it
IndexOf(us, ix) ==
  [key \in {ik[2] : ik \in {k \in UNION {UserKeys(us[j]) : j \in DOMAIN us} :
                                k[1] = ix}} |-> LastOwner(us, <<ix, key>>)]

\* the user directory is empty or holds the users of a loaded snapshot
ResolveInit ==
  /\ \E us \in {<< >>} \cup StartupUserLists :
       /\ users = [id \in {us[j].ID : j \in DOMAIN us} |->
                     us[CHOOSE j \in DOMAIN us : us[j].ID = id]]
       /\ usersInv = IndexOf(us, "usersInv")
       /\ usersDisplayNameInv = IndexOf(us, "usersDisplayNameInv")
       /\ usersRealNameInv = IndexOf(us, "usersRealNameInv")
       /\ usersEmailInv = IndexOf(us, "usersEmailInv")
  /\ channels = EmptyMap /\ channelsInv = EmptyMap
  /\ clientGeneric = NoClient /\ clientEnterprise = NoClient
  /\ authProvider = Nil /\ authResponse = NoIdentity
  /\ everMerged = [users |-> {}, channels |-> {}]
  /\ pc = [t \in Threads |-> IF t = "T1" THEN "rs_parse" ELSE "idle"]
  /\ \E request \in Requests :
       loc = [t \in Threads |->
                IF t = "T1"
                THEN [LocInit EXCEPT !.op = "UsersResolveHandler",
                                     !.list = <<request>>]
                ELSE LocInit]
  /\ authTests = 0 /\ identitySets = 0 /\ clientsMade = 0
  /\ edgeClientsMade = 0 /\ calls = 0 /\ halted = FALSE
  /\ usersFile = Absent /\ channelsFile = Absent /\ grid = << >>
  /\ env = UserTokenEnv /\ provider = New(env, FALSE)

ResolveSpec == ResolveInit /\ [][ResolveNext]_vars

\* C40 as stated: a request whose search_type is none of the five known
\* ones ends with an error, whatever the user directory holds, and so does a
\* request whose query is empty once trimmed and freed of a leading "@".
C40_BadRequestsRejected ==
  (pc["T1"] = "returned" /\ loc["T1"].op = "UsersResolveHandler") =>
    LET request == loc["T1"].list[1]
    IN /\ request.search_type \notin ValidSearchTypes => loc["T1"].err # Nil
       /\ CleanQuery(request.query) = << >> => loc["T1"].err # Nil

=============================================================================
